---- MODULE Spec2Model ----
(***************************************************************************)
(* The two-party adaptor ring-signature protocol of monero-adaptor         *)
(* (src/monero-adaptor/src/lib.rs): group and hash primitives, DLEQ proof, *)
(* commitment/opening, the challenge chain, the Alice0..Alice2 and         *)
(* Bob0..Bob2 states, adapt and verify.                                    *)
(*                                                                         *)
(* Group model.  The prime-order subgroup of Ed25519 is cyclic, so a point *)
(* is written as its multiple of the base point: the point k*G is the      *)
(* number k, points add and scalars multiply modulo the group order.       *)
(* SHA-512 is a two-lane rolling hash over byte strings; a digest reduces  *)
(* to a scalar as a little-endian number modulo the group order.           *)
(* Arrays keep the source's 0-based indices: a function on 0..n-1.         *)
(***************************************************************************)
EXTENDS Integers, Sequences, FiniteSets, TLC

\* ------------------------------------------------------------------ bounds

\* The runs differ by a seed in 1..MaxSeed: it fixes what the setup, Alice
\* and Bob draw from their random streams.
MaxSeed == 2
\* Calls of next_message beyond the first, over the whole run.
MaxReemit == 1

\* --------------------------------------------------------------- constants

RING_SIZE == 11
MSG_LEN == 32
DOMAIN_TAG == <<67, 83, 76, 65, 71, 95, 99>>      \* "CSLAG_c"

\* ------------------------------------------------------------------ results

Ok(v) == [ok |-> TRUE, val |-> v]
Err(e) == [ok |-> FALSE, err |-> e]

\* ------------------------------------------------------- scalars and points

\* The order of the group (of Scalar's field).
GroupOrder == 10007

ED25519_BASEPOINT_POINT == 1

ScalarAdd(a, b) == (a + b) % GroupOrder
ScalarSub(a, b) == (a + GroupOrder - (b % GroupOrder)) % GroupOrder
ScalarMul(a, b) == (a * b) % GroupOrder
ScalarNeg(a) == (GroupOrder - (a % GroupOrder)) % GroupOrder
PointAdd(P, Q) == (P + Q) % GroupOrder
\* s * P
PointMul(s, P) == (s * P) % GroupOrder

\* Scalar::as_bytes and EdwardsPoint::compress: little-endian bytes.
ScalarBytes(s) == <<s % 256, s \div 256>>
Compress(P) == <<P % 256, P \div 256>>
\* CompressedEdwardsY::decompress: None when the bytes are no point.
Decompress(bytes) ==
    LET v == bytes[1] + 256 * bytes[2]
    IN  IF v < GroupOrder THEN Ok(v) ELSE Err("not y-coordinate")

\* Scalar::random(&mut OsRng): draw number k of the stream with this seed.
Rand(seed, k) == ((seed * 3571 + k * 2221 + seed * k * 1009) % (GroupOrder - 1)) + 1

\* ------------------------------------------------------------------ SHA-512

\* A hasher's state is two lanes; lane j takes a byte b as
\*     h := (h * B + c * b + d) % M     with <<B, M, c, d>> == Lanes[j],
\* so bytes absorbed one at a time or in one call give the same state.
Sha512New == <<17, 91>>
Lanes == <<<<263, 32749, 1, 1>>, <<269, 32719, 3, 7>>>>

RECURSIVE PowMod(_, _, _)
PowMod(b, k, m) ==
    IF k = 0 THEN 1
    ELSE LET h == PowMod(b, k \div 2, m)
             q == (h * h) % m
         IN  IF k % 2 = 1 THEN (q * b) % m ELSE q

\* Lane ln's state after bytes[lo..hi], started from 0: byte by byte ...
RECURSIVE LaneSeq(_, _, _, _)
LaneSeq(ln, bytes, lo, hi) ==
    IF lo > hi THEN 0
    ELSE (LaneSeq(ln, bytes, lo, hi - 1) * ln[1] + ln[3] * bytes[hi] + ln[4]) % ln[2]

\* ... and, for a long run, from the states after its two halves.
RECURSIVE LaneRun(_, _, _, _)
LaneRun(ln, bytes, lo, hi) ==
    IF hi - lo < 8 THEN LaneSeq(ln, bytes, lo, hi)
    ELSE LET mid == (lo + hi) \div 2
         IN  (LaneRun(ln, bytes, lo, mid) * PowMod(ln[1], hi - mid, ln[2])
                + LaneRun(ln, bytes, mid + 1, hi)) % ln[2]

LaneChain(ln, h, bytes) ==
    ((h * PowMod(ln[1], Len(bytes), ln[2])) + LaneRun(ln, bytes, 1, Len(bytes))) % ln[2]

\* Digest::chain
Sha512Chain(st, bytes) ==
    <<LaneChain(Lanes[1], st[1], bytes), LaneChain(Lanes[2], st[2], bytes)>>
\* Digest::finalize: the digest's bytes.
Sha512Finalize(st) == <<st[1] % 256, st[1] \div 256, st[2] % 256, st[2] \div 256>>
\* Scalar::from_hash: the digest as a little-endian number, reduced.
ScalarFromHash(st) ==
    LET d == Sha512Finalize(st)
    IN  ((d[1] + 256 * d[2]) + ((65536 % GroupOrder) * (d[3] + 256 * d[4]))) % GroupOrder

\* hash_to_p3 and ge_p3_tobytes of Monero's C core: 32 bytes in, 32 bytes
\* out, which the caller then has to decompress. The bytes are the
\* compression of a point, except on one input (the bytes of the identity),
\* where they are no point's: the case line 51 provides for.
HashToP3Bytes(bytes) ==
    LET v == bytes[1] + 256 * bytes[2]
    IN  IF v = 0 THEN <<255, 255>>
        ELSE Compress(((v * v * 3 + v * 5 + 11) % (GroupOrder - 1)) + 1)

hash_point_to_point(point) ==
    LET bytes == Compress(point)
        compressed == HashToP3Bytes(bytes)
    IN  Decompress(compressed)

\* ------------------------------------------------------- ring signature

RECURSIVE RingConcatFrom(_, _)
RingConcatFrom(ring, i) ==
    IF i = RING_SIZE THEN <<>>
    ELSE Compress(ring[i]) \o RingConcatFrom(ring, i + 1)

\* ring.iter().flat_map(|pk| pk.compress().as_bytes().to_vec())
RingConcat(ring) == RingConcatFrom(ring, 0)

\* Sha512::default().chain(DOMAIN_TAG ++ ring_concat ++ msg)
Prefix(ring, msg) == Sha512Chain(Sha512New, DOMAIN_TAG \o RingConcat(ring) \o msg)

challenge(s_i, pk_i, h_prev, I, prefix) ==
    LET L_i == PointAdd(PointMul(s_i, ED25519_BASEPOINT_POINT), PointMul(h_prev, pk_i))
        H_p_pk_i == hash_point_to_point(pk_i)
    IN  IF ~H_p_pk_i.ok THEN H_p_pk_i
        ELSE LET R_i == PointAdd(PointMul(s_i, H_p_pk_i.val), PointMul(h_prev, I))
                 bytes == Compress(L_i) \o Compress(R_i)
             IN  Ok(ScalarFromHash(Sha512Chain(prefix, bytes)))

\* Fake response i paired with the key of its own index.
FinalChallengeKey_same_index(ring, i) == ring[i]

\* The key final_challenge pairs with fake response i.
FinalChallengeKey(ring, i) == ring[i + 1]

\* One step of a challenge loop, h being what the steps before it left: the
\* `?` ends the loop at the first error.
ChallengeStep(h, s_i, pk_i, I, prefix) ==
    IF ~h.ok THEN h ELSE challenge(s_i, pk_i, h.val, I, prefix)

\* h after the loop's first n steps (steps i = 0..n-1), or the error that
\* ended it. (The steps before are worked out once, as the loop does.)
RECURSIVE FinalChallengeLoop(_, _, _, _, _, _)
FinalChallengeLoop(fake_responses, ring, h_0, I, prefix, n) ==
    IF n = 0 THEN Ok(h_0)
    ELSE CHOOSE r \in
           {ChallengeStep(h, fake_responses[n - 1], FinalChallengeKey(ring, n - 1),
                          I, prefix) :
              h \in {FinalChallengeLoop(fake_responses, ring, h_0, I, prefix, n - 1)}} :
           TRUE

final_challenge(fake_responses, ring, h_0, I, msg) ==
    FinalChallengeLoop(fake_responses, ring, h_0, I, Prefix(ring, msg), RING_SIZE - 1)

foo(fake_responses, ring, T_a, T_b, R_a, I_hat_a, I_hat_b, R_prime_a, I_a, I_b, msg) ==
    LET h_0 == ScalarFromHash(
                 Sha512Chain(
                   Sha512Chain(
                     Sha512Chain(
                       Sha512Chain(Sha512Chain(Sha512New, DOMAIN_TAG), RingConcat(ring)),
                       msg),
                     Compress(PointAdd(PointAdd(T_a, T_b), R_a))),
                   Compress(PointAdd(PointAdd(I_hat_a, I_hat_b), R_prime_a))))
        h_last == final_challenge(fake_responses, ring, h_0, PointAdd(I_a, I_b), msg)
    IN  IF ~h_last.ok THEN h_last ELSE Ok([h_last |-> h_last.val, h_0 |-> h_0])

\* The adapted response with Bob's share left out.
AdaptResponse_without_s_0_b(s_0_a, s_0_b, y) == ScalarAdd(s_0_a, y)

\* The response of an adapted signature: s_0_a + s_0_b + y.
AdaptResponse(s_0_a, s_0_b, y) == ScalarAdd(ScalarAdd(s_0_a, s_0_b), y)

\* adapt with the real response put first and the fake ones after it.
AdaptorSignature_adapt_real_first(self, y) ==
    [responses |-> [i \in 0..(RING_SIZE - 1) |->
                       IF i = 0 THEN AdaptResponse(self.s_0_a, self.s_0_b, y)
                       ELSE self.fake_responses[i - 1]],
     h_0 |-> self.h_0,
     I |-> self.I]

AdaptorSignature_adapt(self, y) ==
    LET r_last == AdaptResponse(self.s_0_a, self.s_0_b, y)
    IN  [responses |-> [i \in 0..(RING_SIZE - 1) |->
                           IF i < RING_SIZE - 1 THEN self.fake_responses[i] ELSE r_last],
         h_0 |-> self.h_0,
         I |-> self.I]

\* Response i paired with the key of its own index.
VerifyKey_same_index(ring, i) == ring[i]

\* The key Signature::verify pairs with response i.
VerifyKey(ring, i) == ring[(i + 1) % RING_SIZE]

\* h after the loop's first n steps (steps i = 0..n-1), or the error that
\* ended it.
RECURSIVE VerifyLoop(_, _, _, _)
VerifyLoop(self, ring, prefix, n) ==
    IF n = 0 THEN Ok(self.h_0)
    ELSE CHOOSE r \in
           {ChallengeStep(h, self.responses[n - 1], VerifyKey(ring, n - 1),
                          self.I, prefix) :
              h \in {VerifyLoop(self, ring, prefix, n - 1)}} :
           TRUE

\* verify taking a failed challenge for an accepted signature.
Signature_verify_accepting_failure(self, ring, msg) ==
    LET h == VerifyLoop(self, ring, Prefix(ring, msg), RING_SIZE)
    IN  IF ~h.ok THEN Ok(TRUE) ELSE Ok(h.val = self.h_0)

\* verify without the comparison of the last h with h_0.
Signature_verify_without_comparison(self, ring, msg) ==
    LET h == VerifyLoop(self, ring, Prefix(ring, msg), RING_SIZE)
    IN  IF ~h.ok THEN h ELSE Ok(TRUE)

Signature_verify(self, ring, msg) ==
    LET h == VerifyLoop(self, ring, Prefix(ring, msg), RING_SIZE)
    IN  IF ~h.ok THEN h ELSE Ok(h.val = self.h_0)

\* ------------------------------------------------------------ DLEQ proof

\* The challenge of a proof: the hash of the statement and the commitments.
DleqChallenge(G, xG, H, xH, rG, rH) ==
    ScalarFromHash(
      Sha512Chain(Sha512New,
        Compress(G) \o Compress(xG) \o Compress(H) \o Compress(xH)
          \o Compress(rG) \o Compress(rH)))

\* The proof with the response computed as r - c x.
DleqProof_new_minus(G, xG, H, xH, x, r) ==
    LET c == DleqChallenge(G, xG, H, xH, PointMul(r, G), PointMul(r, H))
    IN  [s |-> ScalarSub(r, ScalarMul(c, x)), c |-> c]

\* r is the nonce DleqProof::new draws from OsRng.
DleqProof_new(G, xG, H, xH, x, r) ==
    LET rG == PointMul(r, G)
        rH == PointMul(r, H)
        c == DleqChallenge(G, xG, H, xH, rG, rH)
        s == ScalarAdd(r, ScalarMul(c, x))
    IN  [s |-> s, c |-> c]

\* verify without the comparison of c with the recomputed challenge.
DleqProof_verify_without_comparison(self, G, xG, H, xH) == Ok(TRUE)

DleqProof_verify(self, G, xG, H, xH) ==
    LET s == self.s
        c == self.c
        rG == PointAdd(PointMul(s, G), PointMul(ScalarNeg(c), xG))
        rH == PointAdd(PointMul(s, H), PointMul(ScalarNeg(c), xH))
        c_prime == DleqChallenge(G, xG, H, xH, rG, rH)
    IN  IF c # c_prime THEN Err("invalid DLEQ proof") ELSE Ok(TRUE)

\* ------------------------------------------------- commitment and opening

RECURSIVE ResponsesBytesFrom(_, _)
ResponsesBytesFrom(fake_responses, i) ==
    IF i = RING_SIZE - 1 THEN <<>>
    ELSE ScalarBytes(fake_responses[i]) \o ResponsesBytesFrom(fake_responses, i + 1)

Commitment_new(fake_responses, I_a, I_hat_a, T_a) ==
    Sha512Finalize(
      Sha512Chain(
        Sha512Chain(
          Sha512Chain(
            Sha512Chain(Sha512New, ResponsesBytesFrom(fake_responses, 0)),
            Compress(I_a)),
          Compress(I_hat_a)),
        Compress(T_a)))

Opening_new(fake_responses, I_a, I_hat_a, T_a) ==
    [fake_responses |-> fake_responses, I_a |-> I_a, I_hat_a |-> I_hat_a, T_a |-> T_a]

\* open comparing the first half of the two commitments only.
Opening_open_first_half(self, commitment) ==
    LET self_commitment ==
            Commitment_new(self.fake_responses, self.I_a, self.I_hat_a, self.T_a)
        half == Len(commitment) \div 2
    IN  IF SubSeq(self_commitment, 1, half) = SubSeq(commitment, 1, half)
        THEN Ok([fake_responses |-> self.fake_responses, I_a |-> self.I_a,
                 I_hat_a |-> self.I_hat_a, T_a |-> self.T_a])
        ELSE Err("opening does not match commitment")

\* The opening handed back without the comparison.
Opening_open_unchecked(self, commitment) ==
    Ok([fake_responses |-> self.fake_responses, I_a |-> self.I_a,
        I_hat_a |-> self.I_hat_a, T_a |-> self.T_a])

Opening_open(self, commitment) ==
    LET self_commitment ==
            Commitment_new(self.fake_responses, self.I_a, self.I_hat_a, self.T_a)
    IN  IF self_commitment = commitment
        THEN Ok([fake_responses |-> self.fake_responses, I_a |-> self.I_a,
                 I_hat_a |-> self.I_hat_a, T_a |-> self.T_a])
        ELSE Err("opening does not match commitment")

\* ------------------------------------------------------------------ Alice

\* draws: the eleven scalars Alice0::new takes from OsRng, the ten fake
\* responses first and alpha_a last.
Alice0_new(ring, msg, R_a, R_prime_a, s_prime_a, draws) ==
    LET fake_responses == [i \in 0..(RING_SIZE - 2) |-> draws[i]]
        alpha_a == draws[RING_SIZE - 1]
        p_k == ring[0]
        H_p_pk == hash_point_to_point(p_k)
    IN  IF ~H_p_pk.ok THEN H_p_pk
        ELSE Ok([st |-> "Alice0",
                 ring |-> ring,
                 fake_responses |-> fake_responses,
                 msg |-> msg,
                 R_a |-> R_a,
                 R_prime_a |-> R_prime_a,
                 s_prime_a |-> s_prime_a,
                 alpha_a |-> alpha_a,
                 H_p_pk |-> H_p_pk.val,
                 I_a |-> PointMul(s_prime_a, H_p_pk.val),
                 I_hat_a |-> PointMul(alpha_a, H_p_pk.val),
                 T_a |-> PointMul(alpha_a, ED25519_BASEPOINT_POINT)])

\* Message0 with the opening beside the commitment.
Alice0_next_message_with_opening(self, r) ==
    [pi_a |-> DleqProof_new(ED25519_BASEPOINT_POINT, self.T_a, self.H_p_pk,
                            self.I_hat_a, self.alpha_a, r),
     c_a |-> Commitment_new(self.fake_responses, self.I_a, self.I_hat_a, self.T_a),
     d_a |-> Opening_new(self.fake_responses, self.I_a, self.I_hat_a, self.T_a)]

Alice0_next_message(self, r) ==
    [pi_a |-> DleqProof_new(ED25519_BASEPOINT_POINT, self.T_a, self.H_p_pk,
                            self.I_hat_a, self.alpha_a, r),
     c_a |-> Commitment_new(self.fake_responses, self.I_a, self.I_hat_a, self.T_a)]

\* The partial response with the sign of the challenge term flipped.
PartialResponse_plus(alpha, h_last, secret) == ScalarAdd(alpha, ScalarMul(h_last, secret))

\* The partial response without the party's secret: alpha - h_last.
PartialResponse_without_secret(alpha, h_last, secret) == ScalarSub(alpha, h_last)

\* s_0_a = alpha_a - h_last * s_prime_a, and likewise for Bob.
PartialResponse(alpha, h_last, secret) == ScalarSub(alpha, ScalarMul(h_last, secret))

\* Alice0::receive with the result of pi_b's verification dropped.
Alice0_receive_unverified(self, msg) ==
    LET f == foo(self.fake_responses, self.ring, self.T_a, msg.T_b, self.R_a,
                 self.I_hat_a, msg.I_hat_b, self.R_prime_a, self.I_a, msg.I_b, self.msg)
    IN  IF ~f.ok THEN f
        ELSE Ok([st |-> "Alice1",
                 fake_responses |-> self.fake_responses,
                 h_0 |-> f.val.h_0,
                 I_b |-> msg.I_b,
                 s_0_a |-> PartialResponse(self.alpha_a, f.val.h_last, self.s_prime_a),
                 I_a |-> self.I_a,
                 I_hat_a |-> self.I_hat_a,
                 T_a |-> self.T_a])

\* Alice0::receive carrying T_a + T_b into Alice1 in the place of T_a.
Alice0_receive_joint_T(self, msg) ==
    LET v == DleqProof_verify(msg.pi_b, ED25519_BASEPOINT_POINT, msg.T_b,
                              self.H_p_pk, msg.I_hat_b)
    IN  IF ~v.ok THEN v
        ELSE LET f == foo(self.fake_responses, self.ring, self.T_a, msg.T_b, self.R_a,
                          self.I_hat_a, msg.I_hat_b, self.R_prime_a, self.I_a, msg.I_b,
                          self.msg)
             IN  IF ~f.ok THEN f
                 ELSE Ok([st |-> "Alice1",
                          fake_responses |-> self.fake_responses,
                          h_0 |-> f.val.h_0,
                          I_b |-> msg.I_b,
                          s_0_a |-> PartialResponse(self.alpha_a, f.val.h_last,
                                                    self.s_prime_a),
                          I_a |-> self.I_a,
                          I_hat_a |-> self.I_hat_a,
                          T_a |-> PointAdd(self.T_a, msg.T_b)])

Alice0_receive(self, msg) ==
    LET v == DleqProof_verify(msg.pi_b, ED25519_BASEPOINT_POINT, msg.T_b,
                              self.H_p_pk, msg.I_hat_b)
    IN  IF ~v.ok THEN v
        ELSE LET f == foo(self.fake_responses, self.ring, self.T_a, msg.T_b, self.R_a,
                          self.I_hat_a, msg.I_hat_b, self.R_prime_a, self.I_a, msg.I_b,
                          self.msg)
             IN  IF ~f.ok THEN f
                 ELSE Ok([st |-> "Alice1",
                          fake_responses |-> self.fake_responses,
                          h_0 |-> f.val.h_0,
                          I_b |-> msg.I_b,
                          s_0_a |-> PartialResponse(self.alpha_a, f.val.h_last,
                                                    self.s_prime_a),
                          I_a |-> self.I_a,
                          I_hat_a |-> self.I_hat_a,
                          T_a |-> self.T_a])

Alice1_next_message(self) ==
    [d_a |-> Opening_new(self.fake_responses, self.I_a, self.I_hat_a, self.T_a),
     s_0_a |-> self.s_0_a]

\* Alice1::receive with Alice's own share for the key image.
Alice1_receive_own_image(self, msg) ==
    [st |-> "Alice2",
     adaptor_sig |-> [s_0_a |-> self.s_0_a,
                      s_0_b |-> msg.s_0_b,
                      fake_responses |-> self.fake_responses,
                      h_0 |-> self.h_0,
                      I |-> self.I_a]]

\* Alice1::receive adding Bob's share to her own in s_0_a.
Alice1_receive_summing(self, msg) ==
    [st |-> "Alice2",
     adaptor_sig |-> [s_0_a |-> ScalarAdd(self.s_0_a, msg.s_0_b),
                      s_0_b |-> msg.s_0_b,
                      fake_responses |-> self.fake_responses,
                      h_0 |-> self.h_0,
                      I |-> PointAdd(self.I_a, self.I_b)]]

Alice1_receive(self, msg) ==
    [st |-> "Alice2",
     adaptor_sig |-> [s_0_a |-> self.s_0_a,
                      s_0_b |-> msg.s_0_b,
                      fake_responses |-> self.fake_responses,
                      h_0 |-> self.h_0,
                      I |-> PointAdd(self.I_a, self.I_b)]]

\* -------------------------------------------------------------------- Bob

\* alpha_b: the scalar Bob0::new draws from OsRng.
Bob0_new(ring, msg, R_a, R_prime_a, s_b, alpha_b) ==
    LET p_k == ring[0]
        H_p_pk == hash_point_to_point(p_k)
    IN  IF ~H_p_pk.ok THEN H_p_pk
        ELSE Ok([st |-> "Bob0",
                 ring |-> ring,
                 msg |-> msg,
                 R_a |-> R_a,
                 R_prime_a |-> R_prime_a,
                 s_b |-> s_b,
                 alpha_b |-> alpha_b,
                 H_p_pk |-> H_p_pk.val,
                 I_b |-> PointMul(s_b, H_p_pk.val),
                 I_hat_b |-> PointMul(alpha_b, H_p_pk.val),
                 T_b |-> PointMul(alpha_b, ED25519_BASEPOINT_POINT)])

\* Bob0::receive with T_b carried over in the place of I_hat_b.
Bob0_receive_swapped(self, msg) ==
    [st |-> "Bob1",
     ring |-> self.ring,
     msg |-> self.msg,
     R_a |-> self.R_a,
     R_prime_a |-> self.R_prime_a,
     s_b |-> self.s_b,
     alpha_b |-> self.alpha_b,
     H_p_pk |-> self.H_p_pk,
     I_b |-> self.I_b,
     I_hat_b |-> self.T_b,
     T_b |-> self.T_b,
     pi_a |-> msg.pi_a,
     c_a |-> msg.c_a]

Bob0_receive(self, msg) ==
    [st |-> "Bob1",
     ring |-> self.ring,
     msg |-> self.msg,
     R_a |-> self.R_a,
     R_prime_a |-> self.R_prime_a,
     s_b |-> self.s_b,
     alpha_b |-> self.alpha_b,
     H_p_pk |-> self.H_p_pk,
     I_b |-> self.I_b,
     I_hat_b |-> self.I_hat_b,
     T_b |-> self.T_b,
     pi_a |-> msg.pi_a,
     c_a |-> msg.c_a]

Bob1_next_message(self, r) ==
    [I_b |-> self.I_b,
     T_b |-> self.T_b,
     I_hat_b |-> self.I_hat_b,
     pi_b |-> DleqProof_new(ED25519_BASEPOINT_POINT, self.T_b, self.H_p_pk,
                            self.I_hat_b, self.alpha_b, r)]

\* Bob1::receive with the result of pi_a's verification dropped.
Bob1_receive_unverified(self, msg) ==
    LET o == Opening_open(msg.d_a, self.c_a)
    IN  IF ~o.ok THEN o
        ELSE LET f == foo(o.val.fake_responses, self.ring, o.val.T_a, self.T_b, self.R_a,
                          o.val.I_hat_a, self.I_hat_b, self.R_prime_a, o.val.I_a,
                          self.I_b, self.msg)
             IN  IF ~f.ok THEN f
                 ELSE LET s_0_b == PartialResponse(self.alpha_b, f.val.h_last, self.s_b)
                      IN  Ok([st |-> "Bob2",
                              s_0_b |-> s_0_b,
                              adaptor_sig |->
                                  [s_0_a |-> msg.s_0_a,
                                   s_0_b |-> s_0_b,
                                   fake_responses |-> o.val.fake_responses,
                                   h_0 |-> f.val.h_0,
                                   I |-> PointAdd(o.val.I_a, self.I_b)]])

Bob1_receive(self, msg) ==
    LET o == Opening_open(msg.d_a, self.c_a)
    IN  IF ~o.ok THEN o
        ELSE LET fake_responses == o.val.fake_responses
                 I_a == o.val.I_a
                 I_hat_a == o.val.I_hat_a
                 T_a == o.val.T_a
                 v == DleqProof_verify(self.pi_a, ED25519_BASEPOINT_POINT, T_a,
                                       self.H_p_pk, I_hat_a)
             IN  IF ~v.ok THEN v
                 ELSE LET f == foo(fake_responses, self.ring, T_a, self.T_b, self.R_a,
                                   I_hat_a, self.I_hat_b, self.R_prime_a, I_a, self.I_b,
                                   self.msg)
                      IN  IF ~f.ok THEN f
                          ELSE LET s_0_b == PartialResponse(self.alpha_b, f.val.h_last,
                                                            self.s_b)
                               IN  Ok([st |-> "Bob2",
                                       s_0_b |-> s_0_b,
                                       adaptor_sig |->
                                           [s_0_a |-> msg.s_0_a,
                                            s_0_b |-> s_0_b,
                                            fake_responses |-> fake_responses,
                                            h_0 |-> f.val.h_0,
                                            I |-> PointAdd(I_a, self.I_b)]])

Bob2_next_message(self) == [s_0_b |-> self.s_0_b]

\* ------------------------------------------------------------------ state

VARIABLES
    env,        \* what the embedding holds: ring, msg, the secrets, R_a, R_prime_a
    alice,      \* Alice's current state object
    bob,        \* Bob's current state object
    rngA,       \* Alice's random stream: its seed and the draws taken
    rngB,       \* Bob's random stream
    net,        \* the messages emitted so far, by type
    rcvd,       \* the message each receive was given, by type
    sig,        \* the adapted signature, with the adaptor signature and y it came from
    verdict,    \* what Signature::verify returned
    calls,      \* how often each call was made
    order,      \* the calls made, in the order of their first occurrence
    unit        \* a function called on its own: what it is given, what it returned

vars == <<env, alice, bob, rngA, rngB, net, rcvd, sig, verdict, calls, order, unit>>

\* The variables of a run of the protocol.
runVars == <<env, alice, bob, rngA, rngB, net, rcvd, sig, verdict, calls, order>>

MsgTypes == {"M0", "M1", "M2", "M3"}

CallNames == {"Alice0::new", "Bob0::new", "Alice0::next_message", "Bob0::receive",
              "Bob1::next_message", "Alice0::receive", "Alice1::next_message",
              "Bob1::receive", "Bob2::next_message", "Alice1::receive",
              "AdaptorSignature::adapt", "Signature::verify"}

\* The embedding's setup of a run (tests::sign_and_verify_success): the
\* secrets, the adaptor statement, the ring with the joint key at index 0
\* and ten decoys, and the message to sign.
Setup(seed) ==
    LET s_prime_a == Rand(seed, 1)
        s_b == Rand(seed, 2)
        pk == PointMul(ScalarAdd(s_prime_a, s_b), ED25519_BASEPOINT_POINT)
        r_a == Rand(seed, 3)
        R_a == PointMul(r_a, ED25519_BASEPOINT_POINT)
        pk_hashed_to_point == hash_point_to_point(pk).val
        R_prime_a == PointMul(r_a, pk_hashed_to_point)
        ring == [i \in 0..(RING_SIZE - 1) |->
                    IF i = 0 THEN pk
                    ELSE PointMul(Rand(seed, 3 + i), ED25519_BASEPOINT_POINT)]
        msg_to_sign == [i \in 1..MSG_LEN |-> (seed * 31 + i * 7) % 256]
    IN  [ring |-> ring, msg |-> msg_to_sign, s_prime_a |-> s_prime_a, s_b |-> s_b,
         r_a |-> r_a, R_a |-> R_a, R_prime_a |-> R_prime_a]

\* No function is called on its own in a run of the protocol.
NoCall == [fn |-> "none"]

RunInit(seed) ==
    /\ env = Setup(seed)
    /\ rngA = [seed |-> 100 + seed, n |-> 0]
    /\ rngB = [seed |-> 200 + seed, n |-> 0]
    /\ alice = [st |-> "None"]
    /\ bob = [st |-> "None"]
    /\ net = [t \in MsgTypes |-> {}]
    /\ rcvd = [t \in MsgTypes |-> {}]
    /\ sig = {}
    /\ verdict = {}
    /\ calls = [c \in CallNames |-> 0]
    /\ order = <<>>

Init ==
    /\ \E seed \in 1..MaxSeed : RunInit(seed)
    /\ unit = NoCall

\* A state object consumed by a call that returned an error.
Dropped(e) == [st |-> "Dropped", err |-> e]

\* A call that hands `self` back with its error.
Consume_keeping_self(self, r) == IF r.ok THEN r.val ELSE self

\* What is left of `self` after a call that takes it by value and returned
\* r: the new state, or nothing but the error.
Consume(self, r) == IF r.ok THEN r.val ELSE Dropped(r.err)

Called(name) == calls[name] > 0

\* The call is recorded: counted, and placed in the order if it is the first.
Record(name) ==
    /\ calls' = [calls EXCEPT ![name] = @ + 1]
    /\ order' = IF calls[name] = 0 THEN Append(order, name) ELSE order

\* Calls of next_message beyond the first of each state.
Extra(name) == IF calls[name] > 1 THEN calls[name] - 1 ELSE 0
Reemits == Extra("Alice0::next_message") + Extra("Bob1::next_message")
             + Extra("Alice1::next_message") + Extra("Bob2::next_message")

\* next_message borrows its state: it may be called again, within the bound.
MayEmit(name) == calls[name] = 0 \/ Reemits < MaxReemit

\* ------------------------------------------------------------ the wire

None == [f |-> "none", i |-> 0]
Field(f) == [f |-> f, i |-> 0]

\* The alterations of a message on the wire: a point with G added, a scalar
\* or a byte with one added.
Kinds(type) ==
    CASE type = "M0" -> {Field("pi_a.s"), Field("pi_a.c"), Field("c_a")}
      [] type = "M1" -> {Field("T_b"), Field("I_hat_b"), Field("I_b"),
                         Field("pi_b.s"), Field("pi_b.c")}
      [] type = "M2" -> {[f |-> "fake_responses", i |-> i] : i \in 0..(RING_SIZE - 2)}
                          \cup {Field("I_a"), Field("I_hat_a"), Field("T_a"), Field("s_0_a")}
      [] type = "M3" -> {Field("s_0_b")}

BumpPoint(P) == PointAdd(P, ED25519_BASEPOINT_POINT)
BumpScalar(x) == ScalarAdd(x, 1)
BumpByte(bytes) == [bytes EXCEPT ![1] = (@ + 1) % 256]

Tamper(m, k) ==
    CASE k.f = "none" -> m
      [] k.f = "pi_a.s" -> [m EXCEPT !.pi_a.s = BumpScalar(@)]
      [] k.f = "pi_a.c" -> [m EXCEPT !.pi_a.c = BumpScalar(@)]
      [] k.f = "c_a" -> [m EXCEPT !.c_a = BumpByte(@)]
      [] k.f = "T_b" -> [m EXCEPT !.T_b = BumpPoint(@)]
      [] k.f = "I_hat_b" -> [m EXCEPT !.I_hat_b = BumpPoint(@)]
      [] k.f = "I_b" -> [m EXCEPT !.I_b = BumpPoint(@)]
      [] k.f = "pi_b.s" -> [m EXCEPT !.pi_b.s = BumpScalar(@)]
      [] k.f = "pi_b.c" -> [m EXCEPT !.pi_b.c = BumpScalar(@)]
      [] k.f = "fake_responses" -> [m EXCEPT !.d_a.fake_responses[k.i] = BumpScalar(@)]
      [] k.f = "I_a" -> [m EXCEPT !.d_a.I_a = BumpPoint(@)]
      [] k.f = "I_hat_a" -> [m EXCEPT !.d_a.I_hat_a = BumpPoint(@)]
      [] k.f = "T_a" -> [m EXCEPT !.d_a.T_a = BumpPoint(@)]
      [] k.f = "s_0_a" -> [m EXCEPT !.s_0_a = BumpScalar(@)]
      [] k.f = "s_0_b" -> [m EXCEPT !.s_0_b = BumpScalar(@)]

\* What the wire may do to a message of this type.
Wire(type, tampering) == IF tampering THEN Kinds(type) \cup {None} ELSE {None}

\* ---------------------------------------------------------------- actions

AliceNew ==
    /\ alice.st = "None"
    /\ LET draws == [i \in 0..(RING_SIZE - 1) |-> Rand(rngA.seed, rngA.n + 1 + i)]
           r == Alice0_new(env.ring, env.msg, env.R_a, env.R_prime_a, env.s_prime_a, draws)
       IN  alice' = Consume(alice, r)
    /\ rngA' = [rngA EXCEPT !.n = @ + RING_SIZE]
    /\ Record("Alice0::new")
    /\ UNCHANGED <<env, bob, rngB, net, rcvd, sig, verdict, unit>>

BobNew ==
    /\ bob.st = "None"
    /\ LET r == Bob0_new(env.ring, env.msg, env.R_a, env.R_prime_a, env.s_b,
                         Rand(rngB.seed, rngB.n + 1))
       IN  bob' = Consume(bob, r)
    /\ rngB' = [rngB EXCEPT !.n = @ + 1]
    /\ Record("Bob0::new")
    /\ UNCHANGED <<env, alice, rngA, net, rcvd, sig, verdict, unit>>

\* Message0 emitted with the last scalar drawn, alpha_a at first, for the
\* proof's nonce.
A0NextMessage_last_draw ==
    /\ alice.st = "Alice0"
    /\ MayEmit("Alice0::next_message")
    /\ net' = [net EXCEPT !.M0 = @ \cup {Alice0_next_message(alice, Rand(rngA.seed, rngA.n))}]
    /\ rngA' = [rngA EXCEPT !.n = @ + 1]
    /\ Record("Alice0::next_message")
    /\ UNCHANGED <<env, alice, bob, rngB, rcvd, sig, verdict, unit>>

A0NextMessage ==
    /\ alice.st = "Alice0"
    /\ MayEmit("Alice0::next_message")
    /\ net' = [net EXCEPT !.M0 = @ \cup {Alice0_next_message(alice, Rand(rngA.seed, rngA.n + 1))}]
    /\ rngA' = [rngA EXCEPT !.n = @ + 1]
    /\ Record("Alice0::next_message")
    /\ UNCHANGED <<env, alice, bob, rngB, rcvd, sig, verdict, unit>>

B0Receive(tampering) ==
    /\ bob.st = "Bob0"
    /\ \E m \in net.M0, k \in Wire("M0", tampering) :
         LET msg == Tamper(m, k)
         IN  /\ bob' = Consume(bob, Ok(Bob0_receive(bob, msg)))
             /\ rcvd' = [rcvd EXCEPT !.M0 = {msg}]
    /\ Record("Bob0::receive")
    /\ UNCHANGED <<env, alice, rngA, rngB, net, sig, verdict, unit>>

\* Message1 emitted by a Bob who may not have been given Message0 yet.
B1NextMessage_from_Bob0 ==
    /\ bob.st \in {"Bob0", "Bob1"}
    /\ MayEmit("Bob1::next_message")
    /\ net' = [net EXCEPT !.M1 = @ \cup {Bob1_next_message(bob, Rand(rngB.seed, rngB.n + 1))}]
    /\ rngB' = [rngB EXCEPT !.n = @ + 1]
    /\ Record("Bob1::next_message")
    /\ UNCHANGED <<env, alice, bob, rngA, rcvd, sig, verdict, unit>>

B1NextMessage ==
    /\ bob.st = "Bob1"
    /\ MayEmit("Bob1::next_message")
    /\ net' = [net EXCEPT !.M1 = @ \cup {Bob1_next_message(bob, Rand(rngB.seed, rngB.n + 1))}]
    /\ rngB' = [rngB EXCEPT !.n = @ + 1]
    /\ Record("Bob1::next_message")
    /\ UNCHANGED <<env, alice, bob, rngA, rcvd, sig, verdict, unit>>

A0Receive(tampering) ==
    /\ alice.st = "Alice0"
    /\ \E m \in net.M1, k \in Wire("M1", tampering) :
         LET msg == Tamper(m, k)
             r == Alice0_receive(alice, msg)
         IN  /\ alice' = Consume(alice, r)
             /\ rcvd' = [rcvd EXCEPT !.M1 = {msg}]
    /\ Record("Alice0::receive")
    /\ UNCHANGED <<env, bob, rngA, rngB, net, sig, verdict, unit>>

A1NextMessage ==
    /\ alice.st = "Alice1"
    /\ MayEmit("Alice1::next_message")
    /\ net' = [net EXCEPT !.M2 = @ \cup {Alice1_next_message(alice)}]
    /\ Record("Alice1::next_message")
    /\ UNCHANGED <<env, alice, bob, rngA, rngB, rcvd, sig, verdict, unit>>

B1Receive(tampering) ==
    /\ bob.st = "Bob1"
    /\ \E m \in net.M2, k \in Wire("M2", tampering) :
         LET msg == Tamper(m, k)
             r == Bob1_receive(bob, msg)
         IN  /\ bob' = Consume(bob, r)
             /\ rcvd' = [rcvd EXCEPT !.M2 = {msg}]
    /\ Record("Bob1::receive")
    /\ UNCHANGED <<env, alice, rngA, rngB, net, sig, verdict, unit>>

B2NextMessage ==
    /\ bob.st = "Bob2"
    /\ MayEmit("Bob2::next_message")
    /\ net' = [net EXCEPT !.M3 = @ \cup {Bob2_next_message(bob)}]
    /\ Record("Bob2::next_message")
    /\ UNCHANGED <<env, alice, bob, rngA, rngB, rcvd, sig, verdict, unit>>

A1Receive(tampering) ==
    /\ alice.st = "Alice1"
    /\ \E m \in net.M3, k \in Wire("M3", tampering) :
         LET msg == Tamper(m, k)
         IN  /\ alice' = Consume(alice, Ok(Alice1_receive(alice, msg)))
             /\ rcvd' = [rcvd EXCEPT !.M3 = {msg}]
    /\ Record("Alice1::receive")
    /\ UNCHANGED <<env, bob, rngA, rngB, net, sig, verdict, unit>>

\* The scalars adapt is called with: the witness r_a, or another one.
Witnesses(any) ==
    IF any THEN {env.r_a, ScalarAdd(env.r_a, 1), 0} ELSE {env.r_a}

\* alice.adaptor_sig.adapt(y): the adaptor signature is moved out of Alice2.
Adapt(any) ==
    /\ alice.st = "Alice2"
    /\ \E y \in Witnesses(any) :
         sig' = {[signature |-> AdaptorSignature_adapt(alice.adaptor_sig, y),
                  adaptor_sig |-> alice.adaptor_sig,
                  y |-> y]}
    /\ alice' = [st |-> "Moved"]
    /\ Record("AdaptorSignature::adapt")
    /\ UNCHANGED <<env, bob, rngA, rngB, net, rcvd, verdict, unit>>

\* sig.verify(ring, msg_to_sign)
Verify ==
    /\ sig # {}
    /\ verdict = {}
    /\ \E s \in sig : verdict' = {Signature_verify(s.signature, env.ring, env.msg)}
    /\ Record("Signature::verify")
    /\ UNCHANGED <<env, alice, bob, rngA, rngB, net, rcvd, sig, unit>>

\* A run on a wire that may alter messages, adapted with any scalar.
Next ==
    \/ AliceNew
    \/ BobNew
    \/ A0NextMessage
    \/ B0Receive(TRUE)
    \/ B1NextMessage
    \/ A0Receive(TRUE)
    \/ A1NextMessage
    \/ B1Receive(TRUE)
    \/ B2NextMessage
    \/ A1Receive(TRUE)
    \/ Adapt(TRUE)
    \/ Verify

Spec == Init /\ [][Next]_vars

\* The honest run: every message arrives as sent, and Alice adapts with r_a.
HonestNext ==
    \/ AliceNew
    \/ BobNew
    \/ A0NextMessage
    \/ B0Receive(FALSE)
    \/ B1NextMessage
    \/ A0Receive(FALSE)
    \/ A1NextMessage
    \/ B1Receive(FALSE)
    \/ B2NextMessage
    \/ A1Receive(FALSE)
    \/ Adapt(FALSE)
    \/ Verify

\* Some call of the honest run can be made: the guards of HonestNext. (Each
\* of its calls goes through once its guard holds, since it is given what
\* was emitted.)
CanCall ==
    \/ alice.st = "None"
    \/ bob.st = "None"
    \/ alice.st = "Alice0" /\ (MayEmit("Alice0::next_message") \/ net.M1 # {})
    \/ bob.st = "Bob0" /\ net.M0 # {}
    \/ bob.st = "Bob1" /\ (MayEmit("Bob1::next_message") \/ net.M2 # {})
    \/ alice.st = "Alice1" /\ (MayEmit("Alice1::next_message") \/ net.M3 # {})
    \/ bob.st = "Bob2" /\ MayEmit("Bob2::next_message")
    \/ alice.st = "Alice2"
    \/ sig # {} /\ verdict = {}

\* A call is made: every call is recorded, and nothing else is.
ACall == \E c \in CallNames : calls' = [calls EXCEPT ![c] = @ + 1]

\* The test makes its calls one after the other and does not stop while one
\* is left to make: weak fairness of the honest run's steps, each of which
\* is a call made where one can be.
HonestSpec == Init /\ [][HonestNext]_vars /\ WF_calls(CanCall /\ ACall)

\* ------------------------------------------- functions called on their own

\* How often verify is called on one signature.
MaxVerify == 2

\* The adaptor signature Alice holds at the end of the honest run
\* (tests::sign_and_verify_success, every call made once).
HonestAdaptorSignature(e, seedA, seedB) ==
    LET draws == [i \in 0..(RING_SIZE - 1) |-> Rand(seedA, 1 + i)]
        Only(S) == CHOOSE x \in S : TRUE
    IN  Only({Only({Only({Only({
          Alice1_receive(alice1, Bob2_next_message(bob2)).adaptor_sig :
            bob2 \in {Bob1_receive(bob1, Alice1_next_message(alice1)).val}}) :
            alice1 \in {Alice0_receive(alice0, Bob1_next_message(bob1, Rand(seedB, 2))).val}}) :
            bob1 \in {Bob0_receive(bob0, Alice0_next_message(alice0, Rand(seedA, RING_SIZE + 1)))}}) :
            alice0 \in {Alice0_new(e.ring, e.msg, e.R_a, e.R_prime_a, e.s_prime_a, draws).val},
            bob0 \in {Bob0_new(e.ring, e.msg, e.R_a, e.R_prime_a, e.s_b, Rand(seedB, 1)).val}})

\* The signature the test verifies: the adaptor signature adapted with r_a.
HonestSignature(e, seedA, seedB) ==
    AdaptorSignature_adapt(HonestAdaptorSignature(e, seedA, seedB), e.r_a)

\* The identity, the point whose bytes hash_to_p3 maps to no point's.
Identity == PointMul(0, ED25519_BASEPOINT_POINT)

\* What verify may be given in place of a signature, ring and message that
\* verify: one of them with a bit of a byte flipped, a scalar raised by one,
\* a point with G added, or a ring member replaced by a key hash-to-point
\* fails on.
VerifyKinds ==
    {None}
      \cup {[f |-> "msg", i |-> i] : i \in 1..MSG_LEN}
      \cup {[f |-> "ring", i |-> i] : i \in 0..(RING_SIZE - 1)}
      \cup {[f |-> "responses", i |-> i] : i \in 0..(RING_SIZE - 1)}
      \cup {Field("h_0"), Field("I")}
      \cup {[f |-> "no_point", i |-> i] : i \in 0..(RING_SIZE - 1)}

\* A byte with its lowest bit flipped.
FlipBit(b) == IF b % 2 = 0 THEN b + 1 ELSE b - 1

\* in: the signature, ring and msg of a call of verify.
AlterVerify(in, k) ==
    CASE k.f = "none" -> in
      [] k.f = "msg" -> [in EXCEPT !.msg = [i \in 1..MSG_LEN |->
                                              IF i = k.i THEN FlipBit(@[i]) ELSE @[i]]]
      [] k.f = "ring" -> [in EXCEPT !.ring[k.i] = BumpPoint(@)]
      [] k.f = "responses" -> [in EXCEPT !.signature.responses[k.i] = BumpScalar(@)]
      [] k.f = "h_0" -> [in EXCEPT !.signature.h_0 = BumpScalar(@)]
      [] k.f = "I" -> [in EXCEPT !.signature.I = BumpPoint(@)]
      [] k.f = "no_point" -> [in EXCEPT !.ring[k.i] = Identity]

\* sig.verify(ring, msg_to_sign) about to be called, on the honest run's
\* signature or an altered call.
VerifyInputs(seed) ==
    LET e == Setup(seed)
    IN  UNION {{[fn |-> "verify", alt |-> k, in |-> AlterVerify(in, k), results |-> <<>>] :
                  k \in VerifyKinds} :
               in \in {[signature |-> HonestSignature(e, 100 + seed, 200 + seed),
                        ring |-> e.ring, msg |-> e.msg]}}

\* The statements and nonces of a proof: G the base point or another, H the
\* hash of a key or G itself, x zero, one or drawn.
DleqInputs(seed) ==
    {[fn |-> "dleq", stage |-> "drawn", G |-> G, H |-> H, x |-> x, r |-> r] :
       G \in {ED25519_BASEPOINT_POINT, PointMul(Rand(seed, 1), ED25519_BASEPOINT_POINT)},
       H \in {hash_point_to_point(Setup(seed).ring[0]).val, ED25519_BASEPOINT_POINT},
       x \in {0, 1, Rand(seed, 2)},
       r \in {Rand(seed, 3), Rand(seed, 4)}}

\* The statement a proof is checked against: the one it was made for, or
\* that with xG or xH altered.
DleqKinds == {None, Field("xG"), Field("xH")}

AlterStatement(st, k) ==
    CASE k.f = "none" -> st
      [] k.f = "xG" -> [st EXCEPT !.xG = BumpPoint(@)]
      [] k.f = "xH" -> [st EXCEPT !.xH = BumpPoint(@)]

\* An opening and the commitment it is opened against: the commitment to it,
\* to an opening that differs in one field, or one with its first or last
\* byte changed.
OpenInputs(seed) ==
    LET fake_responses == [i \in 0..(RING_SIZE - 2) |-> Rand(seed, 10 + i)]
        d == [d_a |-> Opening_new(fake_responses,
                                  PointMul(Rand(seed, 1), ED25519_BASEPOINT_POINT),
                                  PointMul(Rand(seed, 2), ED25519_BASEPOINT_POINT),
                                  PointMul(Rand(seed, 3), ED25519_BASEPOINT_POINT))]
        c == Commitment_new(d.d_a.fake_responses, d.d_a.I_a, d.d_a.I_hat_a, d.d_a.T_a)
        others == {Tamper(d, k).d_a : k \in Kinds("M2") \ {Field("s_0_a")}}
        held == {c, BumpByte(c), [c EXCEPT ![Len(c)] = (@ + 1) % 256]}
                  \cup {Commitment_new(o.fake_responses, o.I_a, o.I_hat_a, o.T_a) :
                          o \in others}
    IN  {[fn |-> "open", stage |-> "held", opening |-> d.d_a, commitment |-> h] :
           h \in held}

\* final_challenge about to be called: on the fake responses, h_0 and I of
\* the honest run's signature with its ring and message, or with one of
\* them altered.
FinalChallengeInputs(seed) ==
    {[fn |-> "final_challenge", stage |-> "given", alt |-> v.alt, in |-> v.in] :
       v \in {w \in VerifyInputs(seed) : w.alt.f # "msg"}}

UnitInit ==
    \E seed \in 1..MaxSeed :
      /\ RunInit(seed)
      /\ unit \in VerifyInputs(seed) \cup DleqInputs(seed) \cup OpenInputs(seed)
                    \cup FinalChallengeInputs(seed)

\* verify leaving the chain's last h in the signature's h_0.
UnitVerify_storing_h ==
    /\ unit.fn = "verify"
    /\ Len(unit.results) < MaxVerify
    /\ LET h == VerifyLoop(unit.in.signature, unit.in.ring,
                           Prefix(unit.in.ring, unit.in.msg), RING_SIZE)
       IN  unit' = [unit EXCEPT
                      !.results = Append(@, Signature_verify(unit.in.signature,
                                                             unit.in.ring, unit.in.msg)),
                      !.in.signature.h_0 = IF h.ok THEN h.val ELSE @]
    /\ UNCHANGED runVars

\* sig.verify(ring, msg): `&self`, the ring copied in, msg borrowed.
UnitVerify ==
    /\ unit.fn = "verify"
    /\ Len(unit.results) < MaxVerify
    /\ unit' = [unit EXCEPT
                  !.results = Append(@, Signature_verify(unit.in.signature,
                                                         unit.in.ring, unit.in.msg))]
    /\ UNCHANGED runVars

\* DleqProof::new(G, xG, H, xH, x), r being what it draws.
UnitDleqNew ==
    /\ unit.fn = "dleq"
    /\ unit.stage = "drawn"
    /\ LET xG == PointMul(unit.x, unit.G)
           xH == PointMul(unit.x, unit.H)
       IN  unit' = [fn |-> "dleq", stage |-> "proved", x |-> unit.x,
                    statement |-> [G |-> unit.G, xG |-> xG, H |-> unit.H, xH |-> xH],
                    proof |-> DleqProof_new(unit.G, xG, unit.H, xH, unit.x, unit.r)]
    /\ UNCHANGED runVars

\* proof.verify(G, xG, H, xH)
UnitDleqVerify ==
    /\ unit.fn = "dleq"
    /\ unit.stage = "proved"
    /\ \E k \in DleqKinds :
         LET st == AlterStatement(unit.statement, k)
         IN  unit' = [fn |-> "dleq", stage |-> "verified", alt |-> k,
                      proof |-> unit.proof, against |-> st,
                      result |-> DleqProof_verify(unit.proof, st.G, st.xG, st.H, st.xH)]
    /\ UNCHANGED runVars

\* opening.open(commitment): both are moved into the call, and what is left
\* is what it returned. (given: what the call was given, kept for the record.)
UnitOpen ==
    /\ unit.fn = "open"
    /\ unit.stage = "held"
    /\ unit' = [fn |-> "open", stage |-> "opened",
                given |-> [opening |-> unit.opening, commitment |-> unit.commitment],
                result |-> Opening_open(unit.opening, unit.commitment)]
    /\ UNCHANGED runVars

\* final_challenge(fake_responses, ring, h_0, I, msg)
UnitFinalChallenge ==
    /\ unit.fn = "final_challenge"
    /\ unit.stage = "given"
    /\ LET fake_responses == [i \in 0..(RING_SIZE - 2) |-> unit.in.signature.responses[i]]
       IN  unit' = [fn |-> "final_challenge", stage |-> "done", alt |-> unit.alt,
                    in |-> unit.in,
                    h_last |-> final_challenge(fake_responses, unit.in.ring,
                                               unit.in.signature.h_0,
                                               unit.in.signature.I, unit.in.msg)]
    /\ UNCHANGED runVars

UnitNext ==
    \/ UnitVerify
    \/ UnitDleqNew
    \/ UnitDleqVerify
    \/ UnitOpen
    \/ UnitFinalChallenge

\* Each function applied on its own to the inputs drawn.
UnitSpec == UnitInit /\ [][UnitNext]_vars

\* ------------------------------------------------- determine_btc_to_swap

\* The largest amount a future yields, in satoshi.
MaxAmount == 3

Min(a, b) == IF a < b THEN a ELSE b

\* The five futures determine_btc_to_swap is given, in the order of its
\* parameters.
Futures == <<"request_quote", "initial_balance", "get_new_address",
             "wait_for_deposit", "max_giveable">>

\* What a future yields when it is awaited: an error, or its output (a
\* quote with its max_quantity, an amount, an address).
Outcomes(future) ==
    {Err(future)} \cup
      CASE future = "request_quote" -> {Ok([max_quantity |-> q]) : q \in 1..MaxAmount}
        [] future = "initial_balance" -> {Ok(b) : b \in 0..MaxAmount}
        [] future = "get_new_address" -> {Ok("address")}
        [] future = "wait_for_deposit" -> {Ok(b) : b \in 1..MaxAmount}
        [] future = "max_giveable" -> {Ok(g) : g \in 0..MaxAmount}

\* determine_btc_to_swap called: nothing is awaited yet. (out: what each
\* future is going to yield.)
SwapInputs ==
    {[fn |-> "determine_btc_to_swap", pc |-> "request_quote",
      out |-> [request_quote |-> q, initial_balance |-> b, get_new_address |-> a,
               wait_for_deposit |-> d, max_giveable |-> g],
      polled |-> <<>>, max_quantity |-> 0, result |-> Err("pending")] :
       q \in Outcomes("request_quote"), b \in Outcomes("initial_balance"),
       a \in Outcomes("get_new_address"), d \in Outcomes("wait_for_deposit"),
       g \in Outcomes("max_giveable")}

\* `future.await?`: the future is polled; on an error the function returns
\* it, otherwise it goes on to `next`.
Await(future, error, next) ==
    /\ unit.fn = "determine_btc_to_swap"
    /\ unit.pc = future
    /\ LET r == unit.out[future]
       IN  unit' = IF r.ok
                   THEN [unit EXCEPT !.pc = next, !.polled = Append(@, future)]
                   ELSE [unit EXCEPT !.pc = "done", !.polled = Append(@, future),
                                     !.result = Err(error)]
    /\ UNCHANGED runVars

\* let bid_quote = request_quote.await.context("failed to request quote")?
AwaitRequestQuote ==
    /\ unit.fn = "determine_btc_to_swap"
    /\ unit.pc = "request_quote"
    /\ LET r == unit.out["request_quote"]
       IN  unit' = IF r.ok
                   THEN [unit EXCEPT !.pc = "initial_balance",
                                     !.polled = Append(@, "request_quote"),
                                     !.max_quantity = r.val.max_quantity]
                   ELSE [unit EXCEPT !.pc = "done",
                                     !.polled = Append(@, "request_quote"),
                                     !.result = Err("failed to request quote")]
    /\ UNCHANGED runVars

\* The deposit asked for whatever the balance.
AfterInitialBalance_always_deposit(initial_balance) == "get_new_address"

\* What follows `initial_balance.await?`.
AfterInitialBalance(initial_balance) ==
    IF initial_balance = 0 THEN "get_new_address" ELSE "max_giveable"

AwaitInitialBalance ==
    Await("initial_balance", "initial_balance",
          IF unit.out["initial_balance"].ok
          THEN AfterInitialBalance(unit.out["initial_balance"].val)
          ELSE "done")

\* The deposit asked for and not waited for.
AfterNewAddress_without_wait == "max_giveable"

\* What follows `get_new_address.await?`.
AfterNewAddress == "wait_for_deposit"

AwaitNewAddress == Await("get_new_address", "get_new_address", AfterNewAddress)

AwaitDeposit == Await("wait_for_deposit", "wait_for_deposit", "max_giveable")

\* All that can be given, whatever the quote accepts.
BtcToSwap_max_giveable(max_giveable, max_accepted) == max_giveable

\* The amount returned.
BtcToSwap(max_giveable, max_accepted) == Min(max_giveable, max_accepted)

\* let max_giveable = max_giveable.await?; ... Ok(min(max_giveable, max_accepted))
AwaitMaxGiveable ==
    /\ unit.fn = "determine_btc_to_swap"
    /\ unit.pc = "max_giveable"
    /\ LET r == unit.out["max_giveable"]
       IN  unit' = [unit EXCEPT
                      !.pc = "done",
                      !.polled = Append(@, "max_giveable"),
                      !.result = IF r.ok THEN Ok(BtcToSwap(r.val, unit.max_quantity))
                                 ELSE Err("max_giveable")]
    /\ UNCHANGED runVars

SwapInit ==
    /\ RunInit(1)
    /\ unit \in SwapInputs

SwapNext ==
    \/ AwaitRequestQuote
    \/ AwaitInitialBalance
    \/ AwaitNewAddress
    \/ AwaitDeposit
    \/ AwaitMaxGiveable

\* determine_btc_to_swap on every outcome of its futures.
SwapSpec == SwapInit /\ [][SwapNext]_vars

\* ----------------------------------------- wait_for_transaction_finality
\* Wallet::wait_for_transaction_finality (src/swap/src/bitcoin/wallet.rs)
\* called on its own, against a chain that grows and a clock that runs.
\* Heights are block heights, times are in units of the clock.

MaxHeight == 3
MaxTime == 4
MaxFinality == 2
MaxAvgBlockTime == 8

\* execution_params.bitcoin_avg_block_time / 4, the period of the interval.
IntervalPeriod(bitcoin_avg_block_time) == bitcoin_avg_block_time \div 4

\* block_height - tx_block_height on BlockHeight.
BlockHeightSub(block_height, tx_block_height) == block_height - tx_block_height

\* What follows the comparison of the confirmations with
\* bitcoin_finality_confirmations: break, or interval.tick().
AfterConfirmations_strict(confirmations, bitcoin_finality_confirmations) ==
    IF confirmations > bitcoin_finality_confirmations THEN "done" ELSE "tick"

AfterConfirmations(confirmations, bitcoin_finality_confirmations) ==
    IF confirmations >= bitcoin_finality_confirmations THEN "done" ELSE "tick"

\* The call: the transaction is in a block of the chain or in none yet, the
\* interval is made at the time of the call and its first tick is due then.
\* (tx_fetched, tip_fetched: the iteration of the loop each height was last
\* fetched in.)
FinalityInputs ==
    {[fn |-> "wait_for_transaction_finality", pc |-> "transaction_block_height",
      bitcoin_finality_confirmations |-> c, bitcoin_avg_block_time |-> t,
      tip |-> tip, tx_status |-> st, now |-> 0,
      deadline |-> 0, ticks |-> 0, iteration |-> 1,
      tx_block_height |-> 0, block_height |-> 0, confirmations |-> 0,
      tx_fetched |-> 0, tip_fetched |-> 0,
      result |-> Err("pending")] :
        c \in 1..MaxFinality, t \in 4..MaxAvgBlockTime,
        tip \in 1..2, st \in {Err("NotYetMined"), Ok(1), Ok(2)}}

InFinality == unit.fn = "wait_for_transaction_finality"

\* A block is found; the transaction, if in no block yet, may be in it.
NewBlock ==
    /\ InFinality
    /\ unit.tip < MaxHeight
    /\ \E st \in {unit.tx_status} \cup (IF unit.tx_status.ok THEN {} ELSE {Ok(unit.tip + 1)}) :
         unit' = [unit EXCEPT !.tip = @ + 1, !.tx_status = st]
    /\ UNCHANGED runVars

\* The blocks from the transaction's on are replaced by as many, and the
\* transaction is in a later one of them.
Reorg ==
    /\ InFinality
    /\ unit.tx_status.ok
    /\ \E h \in (unit.tx_status.val + 1)..unit.tip :
         unit' = [unit EXCEPT !.tx_status = Ok(h)]
    /\ UNCHANGED runVars

TimePasses ==
    /\ InFinality
    /\ unit.now < MaxTime
    /\ unit' = [unit EXCEPT !.now = @ + 1]
    /\ UNCHANGED runVars

\* transaction_block_height: NotYetMined is retried, so it returns once the
\* transaction is in a block, with that block's height.
TransactionBlockHeight ==
    /\ InFinality
    /\ unit.pc = "transaction_block_height"
    /\ unit.tx_status.ok
    /\ unit' = [unit EXCEPT !.tx_block_height = unit.tx_status.val,
                            !.tx_fetched = unit.iteration,
                            !.pc = "get_block_height"]
    /\ UNCHANGED runVars

\* transaction_block_height: a response that is not the JSON of a status is
\* a permanent error, and expect panics.
TransactionBlockHeightPanics ==
    /\ InFinality
    /\ unit.pc = "transaction_block_height"
    /\ unit' = [unit EXCEPT !.pc = "panicked"]
    /\ UNCHANGED runVars

\* get_block_height: every error is retried, it returns the tip's height.
GetBlockHeight ==
    /\ InFinality
    /\ unit.pc = "get_block_height"
    /\ unit' = [unit EXCEPT !.block_height = unit.tip,
                            !.tip_fetched = unit.iteration,
                            !.pc = "confirmations"]
    /\ UNCHANGED runVars

\* let confirmations = block_height - tx_block_height; break if they are
\* bitcoin_finality_confirmations or more, and return Ok(()).
Confirmations ==
    /\ InFinality
    /\ unit.pc = "confirmations"
    /\ LET confirmations == BlockHeightSub(unit.block_height, unit.tx_block_height)
           next == AfterConfirmations(confirmations, unit.bitcoin_finality_confirmations)
       IN  unit' = [unit EXCEPT !.confirmations = confirmations,
                                !.pc = next,
                                !.result = IF next = "done" THEN Ok("()") ELSE @]
    /\ UNCHANGED runVars

\* interval.tick().await: completes once the tick is due; the next one is
\* due a period after this one was. Then the loop starts over.
IntervalTick ==
    /\ InFinality
    /\ unit.pc = "tick"
    /\ unit.now >= unit.deadline
    /\ unit' = [unit EXCEPT !.deadline = @ + IntervalPeriod(unit.bitcoin_avg_block_time),
                            !.ticks = @ + 1,
                            !.iteration = @ + 1,
                            !.pc = "transaction_block_height"]
    /\ UNCHANGED runVars

\* The transaction is in no block above the tip.
FinalityInit ==
    /\ RunInit(1)
    /\ unit \in FinalityInputs
    /\ unit.tx_status.ok => unit.tx_status.val <= unit.tip

FinalityNext ==
    \/ NewBlock
    \/ Reorg
    \/ TimePasses
    \/ TransactionBlockHeight
    \/ TransactionBlockHeightPanics
    \/ GetBlockHeight
    \/ Confirmations
    \/ IntervalTick

FinalitySpec == FinalityInit /\ [][FinalityNext]_vars

\* ----------------------------------------------- transaction_block_height
\* Wallet::transaction_block_height (src/swap/src/bitcoin/wallet.rs) called
\* on its own: the retry loop around a request of tx/{txid}/status, against
\* a server that may be down, answer something that is not the JSON of a
\* status, or answer the status of the transaction.

MaxRetries == 3

\* ConstantBackoff::new(Duration::from_secs(1)), in seconds.
BackoffInterval == 1

\* ConstantBackoff::next_backoff: the same interval, however many retries
\* there have been.
NextBackoff(retries) == Ok(BackoffInterval)

Servers == {"down", "garbled", "up"}

TransactionStatuses == {Err("NotYetMined")} \cup {Ok(h) : h \in 1..MaxHeight}

\* One run of the closure given to retry: send fails (transient), the body
\* is not JSON of a TransactionStatus (permanent), block_height is None
\* (transient), or it is the height.
StatusOutcome_retrying_json(server, tx_status) ==
    IF server = "down" THEN [kind |-> "Transient", err |-> "Io", val |-> 0]
    ELSE IF server = "garbled"
      THEN [kind |-> "Transient", err |-> "JsonDeserialisation", val |-> 0]
    ELSE IF ~tx_status.ok THEN [kind |-> "Transient", err |-> "NotYetMined", val |-> 0]
    ELSE [kind |-> "Ok", err |-> "", val |-> tx_status.val]

StatusOutcome(server, tx_status) ==
    IF server = "down" THEN [kind |-> "Transient", err |-> "Io", val |-> 0]
    ELSE IF server = "garbled"
      THEN [kind |-> "Permanent", err |-> "JsonDeserialisation", val |-> 0]
    ELSE IF ~tx_status.ok THEN [kind |-> "Transient", err |-> "NotYetMined", val |-> 0]
    ELSE [kind |-> "Ok", err |-> "", val |-> tx_status.val]

\* The call: nothing requested yet. (retries counts the sleeps, up to
\* MaxRetries and no further; delay is the sleep that is due.)
TxHeightInputs ==
    {[fn |-> "transaction_block_height", pc |-> "request",
      server |-> sv, tx_status |-> st, retries |-> 0, delay |-> 0,
      last |-> [kind |-> "None", err |-> "", val |-> 0],
      result |-> Err("pending")] :
        sv \in Servers, st \in TransactionStatuses}

InTxHeight == unit.fn = "transaction_block_height"

\* The server goes down, comes up, or starts answering something else.
ServerTurns ==
    /\ InTxHeight
    /\ \E sv \in Servers \ {unit.server} : unit' = [unit EXCEPT !.server = sv]
    /\ UNCHANGED runVars

\* The transaction gets into a block, or out of it, or into another.
StatusChanges ==
    /\ InTxHeight
    /\ \E st \in TransactionStatuses \ {unit.tx_status} :
         unit' = [unit EXCEPT !.tx_status = st]
    /\ UNCHANGED runVars

\* retry runs the closure once: Ok returns the height, a permanent error
\* makes retry return Err and expect panic, a transient error asks the
\* backoff for the next sleep (None would end the retries as an Err does).
StatusRequest ==
    /\ InTxHeight
    /\ unit.pc = "request"
    /\ LET o == StatusOutcome(unit.server, unit.tx_status)
           next_backoff == NextBackoff(unit.retries)
       IN  unit' = [unit EXCEPT
             !.last = o,
             !.pc = CASE o.kind = "Ok" -> "done"
                      [] o.kind = "Permanent" -> "panicked"
                      [] o.kind = "Transient" ->
                           IF next_backoff.ok THEN "backoff" ELSE "panicked",
             !.delay = IF o.kind = "Transient" /\ next_backoff.ok
                         THEN next_backoff.val ELSE 0,
             !.result = IF o.kind = "Ok" THEN Ok(o.val) ELSE @]
    /\ UNCHANGED runVars

\* The sleep is over: the closure is run again.
BackoffSleep ==
    /\ InTxHeight
    /\ unit.pc = "backoff"
    /\ unit' = [unit EXCEPT !.pc = "request", !.delay = 0,
                            !.retries = Min(@ + 1, MaxRetries)]
    /\ UNCHANGED runVars

TxHeightInit == RunInit(1) /\ unit \in TxHeightInputs

TxHeightNext == ServerTurns \/ StatusChanges \/ StatusRequest \/ BackoffSleep

\* The future is polled to its end by its caller: a request that can be
\* made is made, a sleep that is over is left.
TxHeightSpec ==
    TxHeightInit /\ [][TxHeightNext]_vars /\ WF_vars(StatusRequest) /\ WF_vars(BackoffSleep)

\* --------------------------------------------------- send_raw_transaction
\* monerod Client::send_raw_transaction (src/monero-rpc/src/monerod.rs)
\* called on its own, against what the request can meet: no answer, or an
\* answer with an HTTP status code and a body.

HttpCodes == {199, 200, 204, 299, 300, 404, 500}

\* StatusCode::is_success.
IsSuccess(code) == 200 <= code /\ code < 300

\* A body: JSON or not, the string of its status field if it has one, and
\* whether the other fields of a SendRawTransactionResponse are all there.
Bodies ==
    [json : BOOLEAN, status : {"OK", "Failed", "BUSY", "absent"}, complete : BOOLEAN]

\* response.json::<SendRawTransactionResponse>(): the body has to be JSON
\* with every field of the struct, and its status one of the two renamed
\* variants of Status.
DecodeSendRawTransactionResponse(body) ==
    IF ~body.json THEN Err("decode")
    ELSE IF ~body.complete THEN Err("decode")
    ELSE CASE body.status = "OK" -> Ok([status |-> "Status::Ok"])
           [] body.status = "Failed" -> Ok([status |-> "Status::Failed"])
           [] OTHER -> Err("decode")

\* if response.status == Status::Failed { bail } Ok(())
CheckResponseStatus_accepting(response) == Ok("()")

CheckResponseStatus(response) ==
    IF response.status = "Status::Failed"
      THEN Err("Response status failed")
      ELSE Ok("()")

SendRawInputs ==
    {[fn |-> "send_raw_transaction", pc |-> "send",
      sent |-> sent, code |-> code, body |-> body,
      response |-> [status |-> "none"], result |-> Err("pending")] :
        sent \in BOOLEAN, code \in HttpCodes, body \in Bodies}

InSendRaw == unit.fn = "send_raw_transaction"

\* self.inner.post(...).json(...).send().await?
SendRequest ==
    /\ InSendRaw
    /\ unit.pc = "send"
    /\ unit' = IF unit.sent
                 THEN [unit EXCEPT !.pc = "status"]
                 ELSE [unit EXCEPT !.pc = "done", !.result = Err("send")]
    /\ UNCHANGED runVars

\* if !response.status().is_success() { bail }
CheckHttpStatus ==
    /\ InSendRaw
    /\ unit.pc = "status"
    /\ unit' = IF IsSuccess(unit.code)
                 THEN [unit EXCEPT !.pc = "json"]
                 ELSE [unit EXCEPT !.pc = "done",
                                   !.result = Err("Request failed with status code")]
    /\ UNCHANGED runVars

\* let response = response.json::<SendRawTransactionResponse>().await?
DecodeResponse ==
    /\ InSendRaw
    /\ unit.pc = "json"
    /\ LET r == DecodeSendRawTransactionResponse(unit.body)
       IN  unit' = IF r.ok
                     THEN [unit EXCEPT !.pc = "response", !.response = r.val]
                     ELSE [unit EXCEPT !.pc = "done", !.result = r]
    /\ UNCHANGED runVars

ReturnResponseStatus ==
    /\ InSendRaw
    /\ unit.pc = "response"
    /\ unit' = [unit EXCEPT !.pc = "done", !.result = CheckResponseStatus(unit.response)]
    /\ UNCHANGED runVars

SendRawInit == RunInit(1) /\ unit \in SendRawInputs

SendRawNext == SendRequest \/ CheckHttpStatus \/ DecodeResponse \/ ReturnResponseStatus

SendRawSpec == SendRawInit /\ [][SendRawNext]_vars

\* ------------------------------------------------------------------- main
\* main of swap_cli (src/swap/src/bin/swap_cli.rs): the calls it makes, in
\* order, for each command, any one of which may fail.

Commands == {"BuyXmr", "History", "Resume", "Cancel", "Refund"}

MoneroNetworks == {"Mainnet", "Stagenet", "Testnet"}

\* let monero_network = monero::Network::Stagenet
monero_network == "Stagenet"

\* The calls of main that can fail, by the name of what is called.
MainSteps ==
    {"set_global_default", "read_config", "Database::open",
     "Seed::from_file_or_generate", "WalletRpc::new", "WalletRpc::run",
     "init_bitcoin_wallet", "init_monero_wallet", "EventLoop::new",
     "determine_btc_to_swap", "Builder::build", "bob::run",
     "Database::all", "Database::get_state", "bob::cancel", "bob::refund"}

\* What main does after a step that succeeded ("network" is the comparison
\* of the address's network with monero_network, "return" is Ok(())).
NextStep_wallet_first(cmd, has_config, step) ==
    CASE step = "set_global_default" -> IF has_config THEN "read_config" ELSE "Database::open"
      [] step = "read_config" -> "Database::open"
      [] step = "Database::open" -> "Seed::from_file_or_generate"
      [] step = "Seed::from_file_or_generate" -> "WalletRpc::new"
      [] step = "WalletRpc::new" -> "WalletRpc::run"
      [] step = "WalletRpc::run" ->
           IF cmd = "History" THEN "Database::all" ELSE "init_bitcoin_wallet"
      [] step = "network" -> "init_monero_wallet"
      [] step = "init_bitcoin_wallet" ->
           IF cmd \in {"BuyXmr", "Resume"} THEN "network" ELSE "Database::get_state"
      [] step = "init_monero_wallet" -> "EventLoop::new"
      [] step = "EventLoop::new" ->
           IF cmd = "BuyXmr" THEN "determine_btc_to_swap" ELSE "Builder::build"
      [] step = "determine_btc_to_swap" -> "Builder::build"
      [] step = "Builder::build" -> "bob::run"
      [] step = "Database::get_state" -> IF cmd = "Cancel" THEN "bob::cancel" ELSE "bob::refund"
      [] OTHER -> "return"

NextStep(cmd, has_config, step) ==
    CASE step = "set_global_default" -> IF has_config THEN "read_config" ELSE "Database::open"
      [] step = "read_config" -> "Database::open"
      [] step = "Database::open" -> "Seed::from_file_or_generate"
      [] step = "Seed::from_file_or_generate" -> "WalletRpc::new"
      [] step = "WalletRpc::new" -> "WalletRpc::run"
      [] step = "WalletRpc::run" ->
           CASE cmd \in {"BuyXmr", "Resume"} -> "network"
             [] cmd = "History" -> "Database::all"
             [] OTHER -> "init_bitcoin_wallet"
      [] step = "network" -> "init_bitcoin_wallet"
      [] step = "init_bitcoin_wallet" ->
           IF cmd \in {"BuyXmr", "Resume"} THEN "init_monero_wallet" ELSE "Database::get_state"
      [] step = "init_monero_wallet" -> "EventLoop::new"
      [] step = "EventLoop::new" ->
           IF cmd = "BuyXmr" THEN "determine_btc_to_swap" ELSE "Builder::build"
      [] step = "determine_btc_to_swap" -> "Builder::build"
      [] step = "Builder::build" -> "bob::run"
      [] step = "Database::get_state" -> IF cmd = "Cancel" THEN "bob::cancel" ELSE "bob::refund"
      [] OTHER -> "return"

\* main started with its arguments parsed. (fails: the call that fails, if
\* it is made; made: the calls made so far.)
MainInputs ==
    {[fn |-> "main", pc |-> "set_global_default", cmd |-> cmd, has_config |-> c,
      network |-> n, fails |-> f, made |-> <<>>, result |-> Err("pending")] :
        cmd \in Commands, c \in BOOLEAN, n \in MoneroNetworks,
        f \in MainSteps \cup {"none"}}

InMain == unit.fn = "main"

\* A call that can fail is made: `?` returns its error from main, expect
\* (on the seed) panics, success goes on to what follows.
MainCall ==
    /\ InMain
    /\ unit.pc \in MainSteps
    /\ unit' =
         IF unit.fails # unit.pc
           THEN [unit EXCEPT !.made = Append(@, unit.pc),
                             !.pc = NextStep(unit.cmd, unit.has_config, unit.pc)]
         ELSE IF unit.pc = "Seed::from_file_or_generate"
           THEN [unit EXCEPT !.made = Append(@, unit.pc), !.pc = "panicked"]
         ELSE [unit EXCEPT !.made = Append(@, unit.pc), !.pc = "done",
                           !.result = Err(unit.pc)]
    /\ UNCHANGED runVars

\* if receive_monero_address.network != monero_network { bail!(...) }
MainCheckNetwork ==
    /\ InMain
    /\ unit.pc = "network"
    /\ unit' =
         IF unit.network # monero_network
           THEN [unit EXCEPT !.pc = "done",
                             !.result = Err("monero address is on another network")]
           ELSE [unit EXCEPT !.pc = NextStep(unit.cmd, unit.has_config, "network")]
    /\ UNCHANGED runVars

\* Ok(())
MainReturn ==
    /\ InMain
    /\ unit.pc = "return"
    /\ unit' = [unit EXCEPT !.pc = "done", !.result = Ok("()")]
    /\ UNCHANGED runVars

MainInit == RunInit(1) /\ unit \in MainInputs

MainNext == MainCall \/ MainCheckNetwork \/ MainReturn

MainSpec == MainInit /\ [][MainNext]_vars

\* ------------------------------------------------------------- properties

\* C1: in the honest run (ring[0] the joint key, R_a = r_a G, R'_a = r_a
\* H_p(ring[0]), every message delivered as sent, Alice's adaptor signature
\* adapted with r_a) Signature::verify on the same ring and message returns
\* Ok(true).
RoundTripVerifies == verdict # {} => verdict = {Ok(TRUE)}

\* The honest run has got as far as verify, on a ring whose key 0 is the
\* joint key.
RoundTripDone ==
    /\ verdict = {Ok(TRUE)}
    /\ rcvd.M3 \subseteq net.M3
    /\ env.ring[0] = PointMul(ScalarAdd(env.s_prime_a, env.s_b), ED25519_BASEPOINT_POINT)
    /\ \E s \in sig : s.y = env.r_a

\* C2: whatever adaptor signature adapt was called on and whatever y it
\* was given, the last response of the result, less s_0_a and s_0_b, is y;
\* the first ten responses, h_0 and I are the adaptor signature's.
WitnessExtractable ==
    \A s \in sig :
        /\ ScalarSub(ScalarSub(s.signature.responses[RING_SIZE - 1], s.adaptor_sig.s_0_a),
                     s.adaptor_sig.s_0_b) = s.y
        /\ \A i \in 0..(RING_SIZE - 2) :
             s.signature.responses[i] = s.adaptor_sig.fake_responses[i]
        /\ s.signature.h_0 = s.adaptor_sig.h_0
        /\ s.signature.I = s.adaptor_sig.I

\* An adaptor signature built from a tampered M3 was adapted with a scalar
\* other than r_a.
AdaptedWithOtherScalar ==
    \E s \in sig : s.y # env.r_a /\ s.y # 0 /\ ~(rcvd.M3 \subseteq net.M3)

NextMessageCalls == {"Alice0::next_message", "Bob1::next_message",
                     "Alice1::next_message", "Bob2::next_message"}
ReceiveCalls == {"Bob0::receive", "Alice0::receive", "Bob1::receive", "Alice1::receive"}

\* C3: single use of states: no state emits its message a second time (M0
\* from Alice0, M1 from Bob1, M2 from Alice1, M3 from Bob2), and no state is
\* given a message twice.
SingleUseOfStates ==
    /\ \A c \in NextMessageCalls : calls[c] <= 1
    /\ \A c \in ReceiveCalls : calls[c] <= 1

\* The events of a run, in the order the protocol gives them.
ProtocolOrder == <<"Alice0::next_message", "Bob0::receive", "Bob1::next_message",
                   "Alice0::receive", "Alice1::next_message", "Bob1::receive",
                   "Bob2::next_message", "Alice1::receive">>

IsProtocolEvent(c) == c \in NextMessageCalls \cup ReceiveCalls

ReceiveChecksPass ==
    LET H_p_pk == hash_point_to_point(env.ring[0])
    IN  /\ \A m \in rcvd.M1 :
             DleqProof_verify(m.pi_b, ED25519_BASEPOINT_POINT, m.T_b, H_p_pk.val,
                              m.I_hat_b).ok
        /\ \A m \in rcvd.M2, m0 \in rcvd.M0 :
             /\ Opening_open(m.d_a, m0.c_a).ok
             /\ DleqProof_verify(m0.pi_a, ED25519_BASEPOINT_POINT, m.d_a.T_a, H_p_pk.val,
                                 m.d_a.I_hat_a).ok
        /\ alice.st # "Dropped"
        /\ bob.st # "Dropped"

BothDone == alice.st = "Alice2" /\ bob.st = "Bob2"

\* C5: in the honest run no receive fails (pi_b verifies at Alice0::receive,
\* the opening matches c_a and pi_a verifies at Bob1::receive), and the run
\* reaches Alice2 and Bob2.
HonestRunCompletes == []ReceiveChecksPass /\ <>BothDone

\* Both parties hold the adaptor signature, every message having arrived as
\* sent.
HonestRunDone ==
    /\ BothDone
    /\ \A t \in MsgTypes : rcvd[t] # {} /\ rcvd[t] \subseteq net[t]
    /\ \E m \in rcvd.M3 : alice.adaptor_sig.s_0_b = m.s_0_b
    /\ alice.adaptor_sig = bob.adaptor_sig

\* H_p(pk_0), as both parties work it out from the ring.
H_p_pk_0 == hash_point_to_point(env.ring[0]).val

\* pi_b of a Message1 verifies against (G, T_b, H_p(pk_0), I_hat_b).
PiBVerifies(m) ==
    DleqProof_verify(m.pi_b, ED25519_BASEPOINT_POINT, m.T_b, H_p_pk_0, m.I_hat_b).ok

\* C7: if the Message1 given to Alice0::receive is an emitted one with T_b
\* replaced by T_b + G, or any whose pi_b does not verify against (G, T_b,
\* H_p(pk_0), I_hat_b), receive returns the invalid-DLEQ error, there is no
\* Alice1, and no Message2 is emitted in the run.
TamperedM1Rejected ==
    \A m \in rcvd.M1 :
        (~PiBVerifies(m) \/ \E sent \in net.M1 : m = Tamper(sent, Field("T_b")))
            => /\ alice = Dropped("invalid DLEQ proof")
               /\ net.M2 = {}
               /\ ~Called("Alice1::next_message")

\* Alice0::receive was given a Message1 with T_b + G for T_b and refused it.
M1WithShiftedT_bRefused ==
    /\ alice.st = "Dropped"
    /\ \E m \in rcvd.M1, sent \in net.M1 : m = Tamper(sent, Field("T_b"))

\* The commitment an opening hashes to.
CommitmentOf(d) == Commitment_new(d.fake_responses, d.I_a, d.I_hat_a, d.T_a)

\* The alterations of a Message2 that change its opening.
OpeningKinds == Kinds("M2") \ {Field("s_0_a")}

\* C8: Bob1::receive succeeds only if the opening hashes to the c_a Bob took
\* from Message0: an opening that does not, and an emitted opening with a
\* fake response, I_a, I_hat_a or T_a changed (c_a being the emitted one),
\* fail with the commitment-mismatch error; in every Bob2 the adaptor
\* signature's fake responses and I_a are those of an opening that hashes
\* to c_a.
OpeningMustMatch ==
    /\ \A m \in rcvd.M2, m0 \in rcvd.M0 :
         \/ CommitmentOf(m.d_a) # m0.c_a
         \/ /\ m0 \in net.M0
            /\ \E sent \in net.M2, k \in OpeningKinds : m = Tamper(sent, k)
         => bob = Dropped("opening does not match commitment")
    /\ bob.st = "Bob2" =>
         \E m \in rcvd.M2, m0 \in rcvd.M0 :
            /\ CommitmentOf(m.d_a) = m0.c_a
            /\ bob.adaptor_sig.fake_responses = m.d_a.fake_responses
            /\ bob.adaptor_sig.I = PointAdd(m.d_a.I_a, PointMul(env.s_b, H_p_pk_0))
            /\ m0 \in net.M0 => \E sent \in net.M2 : sent.d_a = m.d_a

\* Bob1::receive was given an opening with the last fake response changed,
\* against the commitment Alice emitted, and refused it.
ChangedOpeningRefused ==
    /\ bob.st = "Dropped"
    /\ rcvd.M0 \subseteq net.M0
    /\ \E m \in rcvd.M2, sent \in net.M2 :
         m = Tamper(sent, [f |-> "fake_responses", i |-> RING_SIZE - 2])

\* pi_a of a Message0 verifies against the T_a and I_hat_a of an opening,
\* with bases G and H_p(pk_0).
PiAVerifies(m0, d) ==
    DleqProof_verify(m0.pi_a, ED25519_BASEPOINT_POINT, d.T_a, H_p_pk_0, d.I_hat_a).ok

\* C9: Bob is Bob2, and Message3 is emitted, only if the pi_a he got in
\* Message0 verifies against the opened T_a and I_hat_a; if the opening
\* matches and pi_a does not verify, Bob1::receive fails with the
\* invalid-DLEQ error, and there is no s_0_b, no adaptor signature and no
\* Message3.
Bob2OnlyWithValidPiA ==
    /\ (bob.st = "Bob2" \/ net.M3 # {}) =>
         /\ rcvd.M0 # {} /\ rcvd.M2 # {}
         /\ \A m0 \in rcvd.M0, m \in rcvd.M2 : PiAVerifies(m0, m.d_a)
    /\ \A m0 \in rcvd.M0, m \in rcvd.M2 :
         (CommitmentOf(m.d_a) = m0.c_a /\ ~PiAVerifies(m0, m.d_a))
            => /\ bob = Dropped("invalid DLEQ proof")
               /\ net.M3 = {}
               /\ ~Called("Bob2::next_message")

\* Bob1::receive was given the opening of the commitment he holds, and
\* refused it for the pi_a that had come with the commitment.
InvalidPiARefused ==
    /\ bob = Dropped("invalid DLEQ proof")
    /\ \E m0 \in rcvd.M0, m \in rcvd.M2 : CommitmentOf(m.d_a) = m0.c_a

\* Alice0::receive, or Bob1::receive, returned an error: the message it was
\* given fails one of its checks.
AliceRefused == \E m \in rcvd.M1 : ~PiBVerifies(m)
BobRefused ==
    \E m0 \in rcvd.M0, m \in rcvd.M2 :
        CommitmentOf(m.d_a) # m0.c_a \/ ~PiAVerifies(m0, m.d_a)

AliceCalls == {"Alice0::new", "Alice0::next_message", "Alice0::receive",
               "Alice1::next_message", "Alice1::receive", "AdaptorSignature::adapt"}
BobCalls == {"Bob0::new", "Bob0::receive", "Bob1::next_message", "Bob1::receive",
             "Bob2::next_message"}

\* Of the state a failed receive was called on only the error is left, and
\* the receive was called once.
ErrorLeavesNothing ==
    /\ AliceRefused =>
         /\ alice.st = "Dropped"
         /\ DOMAIN alice = {"st", "err"}
         /\ calls["Alice0::receive"] = 1
         /\ \A c \in {"Alice1::next_message", "Alice1::receive",
                      "AdaptorSignature::adapt"} : calls[c] = 0
         /\ net.M2 = {}
    /\ BobRefused =>
         /\ bob.st = "Dropped"
         /\ DOMAIN bob = {"st", "err"}
         /\ calls["Bob1::receive"] = 1
         /\ calls["Bob2::next_message"] = 0
         /\ net.M3 = {}

\* A party whose receive has failed makes no further call: it is given no
\* other message and emits none.
NothingAfterError ==
    /\ alice.st = "Dropped" =>
         /\ alice' = alice
         /\ \A c \in AliceCalls : calls'[c] = calls[c]
         /\ net'.M0 = net.M0 /\ net'.M2 = net.M2
         /\ rcvd'.M1 = rcvd.M1 /\ rcvd'.M3 = rcvd.M3
    /\ bob.st = "Dropped" =>
         /\ bob' = bob
         /\ \A c \in BobCalls : calls'[c] = calls[c]
         /\ net'.M1 = net.M1 /\ net'.M3 = net.M3
         /\ rcvd'.M0 = rcvd.M0 /\ rcvd'.M2 = rcvd.M2

\* C10: when Alice0::receive or Bob1::receive returns an error the state it
\* was called on is gone, the step is not made again with another message,
\* and the failing party emits no later message in the run.
ErrorsAbortTheRun == []ErrorLeavesNothing /\ [][NothingAfterError]_vars

\* Alice0::receive has failed with two valid Message1 emitted, neither of
\* which Alice can be given any more.
RefusedWithValidM1AtHand ==
    /\ AliceRefused
    /\ Cardinality(net.M1) = 2
    /\ \A m \in net.M1 : PiBVerifies(m) /\ m \notin rcvd.M1

\* C15: adapt(y) gives the signature whose responses are the ten fake
\* responses, in their order, at 0..9 and s_0_a + s_0_b + y at 10, and
\* whose h_0 and I are the adaptor signature's.
AdaptPlacesRealResponseLast ==
    \A s \in sig :
        s.signature =
            [responses |->
                 [i \in 0..(RING_SIZE - 1) |->
                     IF i <= 9 THEN s.adaptor_sig.fake_responses[i]
                     ELSE (s.adaptor_sig.s_0_a + s.adaptor_sig.s_0_b + s.y) % GroupOrder],
             h_0 |-> s.adaptor_sig.h_0,
             I |-> s.adaptor_sig.I]

\* adapt was given 0, on an adaptor signature whose fake responses differ
\* from one another and from the real one.
AdaptedWithZero ==
    \E s \in sig :
        /\ s.y = 0
        /\ \A i, j \in 0..(RING_SIZE - 1) :
             i # j => s.signature.responses[i] # s.signature.responses[j]

\* C18: in the honest run Alice2 and Bob2 hold the same adaptor signature:
\* the same s_0_a, s_0_b, fake responses, h_0 and I. (The one Alice gives to
\* adapt is that one too.)
BothAssembleTheSame ==
    /\ (alice.st = "Alice2" /\ bob.st = "Bob2") =>
         /\ alice.adaptor_sig.s_0_a = bob.adaptor_sig.s_0_a
         /\ alice.adaptor_sig.s_0_b = bob.adaptor_sig.s_0_b
         /\ \A i \in 0..(RING_SIZE - 2) :
              alice.adaptor_sig.fake_responses[i] = bob.adaptor_sig.fake_responses[i]
         /\ alice.adaptor_sig.h_0 = bob.adaptor_sig.h_0
         /\ alice.adaptor_sig.I = bob.adaptor_sig.I
    /\ \A s \in sig : bob.st = "Bob2" /\ s.adaptor_sig = bob.adaptor_sig

\* Alice is Alice2 and Bob is Bob2, each with an adaptor signature.
BothHoldAdaptorSignature ==
    /\ alice.st = "Alice2"
    /\ bob.st = "Bob2"
    /\ DOMAIN alice.adaptor_sig = DOMAIN bob.adaptor_sig
    /\ calls["Alice1::receive"] = 1 /\ calls["Bob1::receive"] = 1

\* The key image of the joint key: (s'_a + s_b) H_p(pk_0).
JointKeyImage == PointMul(ScalarAdd(env.s_prime_a, env.s_b), H_p_pk_0)

\* C19: the key image of every adaptor signature assembled by Alice1::receive
\* or by Bob1::receive is I_a + I_b with I_a = s'_a H_p(pk_0) and I_b = s_b
\* H_p(pk_0), that is (s'_a + s_b) H_p(pk_0).
KeyImageIsJoint ==
    /\ alice.st = "Alice2" => alice.adaptor_sig.I = JointKeyImage
    /\ bob.st = "Bob2" => bob.adaptor_sig.I = JointKeyImage

\* The scalars Alice0::new and Bob0::new draw: ten fake responses and
\* alpha_a; alpha_b.
DrawsOfAlice0New == RING_SIZE
DrawsOfBob0New == 1

NonceOf(proof, x) == ScalarSub(proof.s, ScalarMul(proof.c, x))

\* The draws of a stream from number lo to number hi.
DrawsBetween(rng, lo, hi) == {Rand(rng.seed, k) : k \in lo..hi}

RECURSIVE ChainAt(_, _)
ChainAt(in, i) ==
    IF i = 0 THEN in.signature.h_0
    ELSE CHOOSE h \in
           {challenge(in.signature.responses[i - 1], in.ring[i], h_prev,
                      in.signature.I, Prefix(in.ring, in.msg)).val :
              h_prev \in {ChainAt(in, i - 1)}} :
           TRUE

ChainEnd(in) ==
    challenge(in.signature.responses[RING_SIZE - 1], in.ring[0],
              ChainAt(in, RING_SIZE - 1), in.signature.I, Prefix(in.ring, in.msg)).val

VerifyFollowsTheChain ==
    unit.fn = "verify" /\ unit.alt.f # "no_point" =>
      \A n \in DOMAIN unit.results :
        unit.results[n] = Ok(ChainEnd(unit.in) = unit.in.signature.h_0)

\* verify has returned true on the honest run's signature, its chain being
\* back at h_0.
VerifiedByTheChain ==
    /\ unit.fn = "verify"
    /\ unit.alt = None
    /\ unit.results # <<>>
    /\ unit.results[1] = Ok(TRUE)
    /\ ChainEnd(unit.in) = unit.in.signature.h_0

\* C12: when a signature verifies against a ring and a message, verify
\* returns false on the call that differs from it in one byte of the
\* message, one ring member, h_0, I or one response; the signature with
\* response 10 changed is the adaptor signature adapted with a y other than
\* r_a.
HonestCall ==
    [signature |-> HonestSignature(env, rngA.seed, rngB.seed),
     ring |-> env.ring, msg |-> env.msg]

IsAlteration(k) == k.f \in {"msg", "ring", "responses", "h_0", "I"}

AlteredCallsRejected ==
    /\ unit.fn = "verify" /\ IsAlteration(unit.alt)
         /\ Signature_verify(HonestCall.signature, HonestCall.ring, HonestCall.msg) = Ok(TRUE)
       => /\ unit.in = AlterVerify(HonestCall, unit.alt)
          /\ unit.in # HonestCall
          /\ \A n \in DOMAIN unit.results : unit.results[n] = Ok(FALSE)
    /\ unit.fn = "verify" /\ unit.alt = [f |-> "responses", i |-> RING_SIZE - 1]
       => unit.in.signature =
            AdaptorSignature_adapt(HonestAdaptorSignature(env, rngA.seed, rngB.seed),
                                   ScalarAdd(env.r_a, 1))

\* verify has returned false on a signature adapted with r_a + 1, and false
\* on the honest signature with the message's last byte changed.
AlteredCallVerified ==
    /\ unit.fn = "verify"
    /\ unit.alt \in {[f |-> "responses", i |-> RING_SIZE - 1], [f |-> "msg", i |-> MSG_LEN]}
    /\ unit.results # <<>>
    /\ unit.results[1] = Ok(FALSE)
    /\ Signature_verify(HonestCall.signature, HonestCall.ring, HonestCall.msg) = Ok(TRUE)

\* C13: when hash-to-point fails on a key of the ring, every call of
\* Signature::verify on that ring returns the error of the failed
\* decompression: it does not return Ok, so the signature is not accepted.
HashToPointFails(ring) ==
    \E i \in 0..(RING_SIZE - 1) : ~hash_point_to_point(ring[i]).ok

FailureIsRejection ==
    unit.fn = "verify" /\ HashToPointFails(unit.in.ring) =>
      \A n \in DOMAIN unit.results :
        /\ ~unit.results[n].ok
        /\ unit.results[n] = Err("not y-coordinate")

\* verify has been called on the honest signature and a ring whose last key
\* hash-to-point fails on, and has returned an error.
VerifiedWithFailingKey ==
    /\ unit.fn = "verify"
    /\ unit.alt = [f |-> "no_point", i |-> RING_SIZE - 1]
    /\ HashToPointFails(unit.in.ring)
    /\ unit.in.signature = HonestCall.signature
    /\ unit.results # <<>>
    /\ ~unit.results[1].ok

\* C14: a call of Signature::verify leaves the signature, the ring and the
\* message as they were, and all the calls made with the same signature,
\* ring and message return the same result.
VerifyResultsAgree ==
    unit.fn = "verify" =>
      \A i, j \in DOMAIN unit.results : unit.results[i] = unit.results[j]

VerifyLeavesInputs == unit.fn = "verify" => unit'.in = unit.in

PointSub(P, Q) == PointAdd(P, PointMul(GroupOrder - 1, Q))

RecomputedChallenge(proof, st) ==
    DleqChallenge(st.G, st.xG, st.H, st.xH,
                  PointSub(PointMul(proof.s, st.G), PointMul(proof.c, st.xG)),
                  PointSub(PointMul(proof.s, st.H), PointMul(proof.c, st.xH)))

DleqSoundAndComplete ==
    unit.fn = "dleq" /\ unit.stage = "verified" =>
      /\ unit.result.ok <=> RecomputedChallenge(unit.proof, unit.against) = unit.proof.c
      /\ unit.alt = None => unit.result = Ok(TRUE)
      /\ unit.alt # None => unit.result = Err("invalid DLEQ proof")

\* A proof made with a drawn x on bases other than the base point and its
\* hash has been verified, on its own statement or on an altered one.
DleqVerified ==
    /\ unit.fn = "dleq"
    /\ unit.stage = "verified"
    /\ unit.against.G # ED25519_BASEPOINT_POINT
    /\ unit.against.xG \notin {Identity, unit.against.G}
    /\ unit.alt \in {None, Field("xH")}

\* C17: Opening::open returns Ok exactly when the hash of the opening's
\* fake_responses, I_a, I_hat_a and T_a is the commitment it is given, and
\* then returns those four as they are in the opening; otherwise it returns
\* an error. After the call the caller holds neither the opening nor the
\* commitment, only what open returned.
OpenIffRehashMatches ==
    unit.fn = "open" /\ unit.stage = "opened" =>
      LET o == unit.given.opening
          matches == Sha512Finalize(
                       Sha512Chain(Sha512New,
                         ResponsesBytesFrom(o.fake_responses, 0) \o Compress(o.I_a)
                           \o Compress(o.I_hat_a) \o Compress(o.T_a)))
                     = unit.given.commitment
      IN  /\ unit.result.ok <=> matches
          /\ unit.result.ok =>
               /\ unit.result.val.fake_responses = o.fake_responses
               /\ unit.result.val.I_a = o.I_a
               /\ unit.result.val.I_hat_a = o.I_hat_a
               /\ unit.result.val.T_a = o.T_a
          /\ ~unit.result.ok => unit.result = Err("opening does not match commitment")
          /\ DOMAIN unit \cap {"opening", "commitment"} = {}

\* open has been called with the commitment to the opening, and has
\* returned the opening's four fields.
Opened ==
    /\ unit.fn = "open"
    /\ unit.stage = "opened"
    /\ CommitmentOf(unit.given.opening) = unit.given.commitment
    /\ unit.result = Ok(unit.given.opening)

\* C21: a Message0 holds the commitment, a digest, and the proof pi_a, two
\* scalars, and nothing else: none of fake_responses, I_a, I_hat_a, T_a.
\* Alice's only other message, Message2, is emitted by an Alice1 only, that
\* is after Alice0::receive was given a Message1 with I_b, T_b and I_hat_b
\* and accepted it.
Message0Fields ==
    \A m \in net.M0 :
      /\ DOMAIN m = {"c_a", "pi_a"}
      /\ DOMAIN m.pi_a = {"s", "c"}
      /\ DOMAIN m.c_a = DOMAIN Sha512Finalize(Sha512New)
      /\ m.pi_a.s \in 0..(GroupOrder - 1)
      /\ m.pi_a.c \in 0..(GroupOrder - 1)

Message2AfterMessage1 ==
    net.M2 # {} =>
      /\ Called("Alice0::receive")
      /\ alice.st \notin {"None", "Alice0", "Dropped"}
      /\ \E m \in rcvd.M1 :
           /\ {"I_b", "T_b", "I_hat_b"} \subseteq DOMAIN m
           /\ PiBVerifies(m)

Message2Emission ==
    net'.M2 # net.M2 => alice.st = "Alice1" /\ rcvd.M1 # {} /\ net.M0 # {}

FirstFlightHidden ==
    [](Message0Fields /\ Message2AfterMessage1) /\ [][Message2Emission]_vars

\* Message0 was emitted more than once and Message2 after a Message1 that
\* was altered on the wire.
OpenedAfterMessage1 ==
    /\ Cardinality(net.M0) > 1
    /\ net.M2 # {}
    /\ ~(rcvd.M1 \subseteq net.M1)

\* C24: every call of Bob0::receive, whatever the Message0, returns a Bob1:
\* with the message's c_a and pi_a as they came, and with ring, msg, R_a,
\* R_prime_a, s_b, alpha_b, H_p_pk, I_b, I_hat_b and T_b as Bob0 had them.
\* A Bob1 may thus hold a pi_a that verifies against nothing; a Bob2 holds
\* none (Bob1::receive has verified it against the opening).
Bob0Fields == {"ring", "msg", "R_a", "R_prime_a", "s_b", "alpha_b", "H_p_pk",
               "I_b", "I_hat_b", "T_b"}

Bob0ReceiveCalled == calls'["Bob0::receive"] # calls["Bob0::receive"]

Bob0ReceiveStores ==
    Bob0ReceiveCalled =>
      /\ bob.st = "Bob0"
      /\ bob'.st = "Bob1"
      /\ DOMAIN bob' = Bob0Fields \cup {"st", "pi_a", "c_a"}
      /\ \A f \in Bob0Fields : bob'[f] = bob[f]
      /\ rcvd'.M0 # {}
      /\ \A m \in rcvd'.M0 : bob'.pi_a = m.pi_a /\ bob'.c_a = m.c_a

Bob1HoldsWhatCame ==
    /\ bob.st = "Bob1" => \A m \in rcvd.M0 : bob.pi_a = m.pi_a /\ bob.c_a = m.c_a
    /\ Called("Bob0::receive") /\ ~Called("Bob1::receive") => bob.st = "Bob1"

Bob0ReceiveChecksNothing == []Bob1HoldsWhatCame /\ [][Bob0ReceiveStores]_vars

\* Bob is Bob1 with a pi_a or a c_a that was altered on the wire.
Bob1WithAlteredMessage0 ==
    /\ bob.st = "Bob1"
    /\ \E m \in rcvd.M0 : m \notin net.M0 /\ bob.pi_a = m.pi_a /\ bob.c_a = m.c_a

\* C25: final_challenge pairs fake response i with ring[i + 1], i = 0..9:
\* the keys 1..10, each once, and not key 0. What it returns is what the
\* chain of Signature::verify holds after its first ten steps on the same
\* fake responses, h_0, I, ring and msg: the tenth h, or the error of the
\* first key among 1..10 that hash-to-point fails on.
FinalChallengeIsVerifyPrefix ==
    unit.fn = "final_challenge" /\ unit.stage = "done" =>
      LET in == unit.in
          keysOk == \A i \in 1..(RING_SIZE - 1) : hash_point_to_point(in.ring[i]).ok
      IN  /\ unit.h_last = VerifyLoop(in.signature, in.ring, Prefix(in.ring, in.msg),
                                      RING_SIZE - 1)
          /\ keysOk => unit.h_last = Ok(ChainAt(in, RING_SIZE - 1))
          /\ ~keysOk => unit.h_last = Err("not y-coordinate")
          /\ {i + 1 : i \in 0..(RING_SIZE - 2)} = (DOMAIN in.ring) \ {0}

\* final_challenge has returned an h on a ring whose key 0 is one that
\* hash-to-point fails on.
FinalChallengeDone ==
    /\ unit.fn = "final_challenge"
    /\ unit.stage = "done"
    /\ unit.alt = [f |-> "no_point", i |-> 0]
    /\ ~hash_point_to_point(unit.in.ring[0]).ok
    /\ unit.h_last.ok

\* C26: the Alice1 that Alice0::receive returns holds
\* s_0_a = alpha_a - h_last s_prime_a, and the Bob2 that Bob1::receive
\* returns holds s_0_b = alpha_b - h_last s_b, where h_0 is the hash of the
\* tag, ring, msg, T_a + T_b + R_a and I_hat_a + I_hat_b + R_prime_a, and
\* h_last is the tenth h of the chain from h_0 over the fake responses and
\* the keys 1..10 with key image I_a + I_b.
H0Of(ring, msg, T_a, T_b, R_a, I_hat_a, I_hat_b, R_prime_a) ==
    ScalarFromHash(
      Sha512Chain(Sha512New,
        DOMAIN_TAG \o RingConcat(ring) \o msg
          \o Compress(PointAdd(T_a, PointAdd(T_b, R_a)))
          \o Compress(PointAdd(I_hat_a, PointAdd(I_hat_b, R_prime_a)))))

HLastOf(fake_responses, ring, msg, h_0, I_a, I_b) ==
    ChainAt([signature |-> [responses |-> fake_responses, h_0 |-> h_0,
                            I |-> PointAdd(I_a, I_b)],
             ring |-> ring, msg |-> msg],
            RING_SIZE - 1)

AlicesPartialResponse ==
    alice.st = "Alice0" /\ alice'.st = "Alice1" =>
      \A m \in rcvd'.M1 :
        LET h_0 == H0Of(alice.ring, alice.msg, alice.T_a, m.T_b, alice.R_a,
                        alice.I_hat_a, m.I_hat_b, alice.R_prime_a)
            h_last == HLastOf(alice.fake_responses, alice.ring, alice.msg, h_0,
                              alice.I_a, m.I_b)
        IN  /\ alice'.h_0 = h_0
            /\ ScalarAdd(alice'.s_0_a, ScalarMul(h_last, alice.s_prime_a)) = alice.alpha_a

BobsPartialResponse ==
    bob.st = "Bob1" /\ bob'.st = "Bob2" =>
      \A m \in rcvd'.M2 :
        LET d == m.d_a
            h_0 == H0Of(bob.ring, bob.msg, d.T_a, bob.T_b, bob.R_a,
                        d.I_hat_a, bob.I_hat_b, bob.R_prime_a)
            h_last == HLastOf(d.fake_responses, bob.ring, bob.msg, h_0, d.I_a, bob.I_b)
        IN  /\ bob'.adaptor_sig.h_0 = h_0
            /\ ScalarAdd(bob'.s_0_b, ScalarMul(h_last, bob.s_b)) = bob.alpha_b

PartialResponses == [][AlicesPartialResponse /\ BobsPartialResponse]_vars

\* Both receives have returned their partial responses, Alice's on a
\* Message1 whose I_b was altered on the wire.
PartialResponsesMade ==
    /\ alice.st = "Alice1"
    /\ bob.st = "Bob2"
    /\ \E m \in rcvd.M1, n \in net.M1 : m.I_b # n.I_b
    /\ alice.s_0_a \in 0..(GroupOrder - 1)
    /\ bob.s_0_b \in 0..(GroupOrder - 1)

\* C27: every Message2 Alice emits opens the commitment of every Message0
\* she emitted in the run; all her Message0 carry the same commitment; and
\* Alice0::receive carries fake_responses, I_a, I_hat_a and T_a into Alice1
\* as Alice0 held them.
OpeningFields == {"fake_responses", "I_a", "I_hat_a", "T_a"}

OpeningOpensCommitment ==
    /\ \A m0 \in net.M0, m2 \in net.M2 : Opening_open(m2.d_a, m0.c_a) = Ok(m2.d_a)
    /\ \A m, n \in net.M0 : m.c_a = n.c_a

Alice0ReceiveCarries ==
    alice.st = "Alice0" /\ alice'.st = "Alice1" =>
      \A f \in OpeningFields : alice'[f] = alice[f]

OpeningMatchesCommitment == []OpeningOpensCommitment /\ [][Alice0ReceiveCarries]_vars

\* Message0 was emitted twice, with two proofs, and Bob has opened the
\* commitment with the opening of Message2.
CommittedTwiceAndOpened ==
    /\ Cardinality(net.M0) = 2
    /\ net.M2 # {}
    /\ bob.st = "Bob2"

\* C28: every call of Alice1::receive, whatever the s_0_b of the Message3,
\* returns an Alice2 whose adaptor signature has that s_0_b, and the s_0_a,
\* fake_responses and h_0 of Alice1. Bob1::receive puts the s_0_a of the
\* Message2 into its adaptor signature as it came, and whether it returns
\* Ok does not depend on s_0_a.
Alice1ReceiveCalled == calls'["Alice1::receive"] # calls["Alice1::receive"]

Alice1ReceiveCopies ==
    Alice1ReceiveCalled =>
      /\ alice.st = "Alice1"
      /\ alice'.st = "Alice2"
      /\ rcvd'.M3 # {}
      /\ \A m \in rcvd'.M3 : alice'.adaptor_sig.s_0_b = m.s_0_b
      /\ alice'.adaptor_sig.s_0_a = alice.s_0_a
      /\ alice'.adaptor_sig.fake_responses = alice.fake_responses
      /\ alice'.adaptor_sig.h_0 = alice.h_0

Bob1ReceiveCalled == calls'["Bob1::receive"] # calls["Bob1::receive"]

Bob1ReceiveCopies ==
    Bob1ReceiveCalled =>
      \A m \in rcvd'.M2 :
        /\ bob'.st = "Bob2" => bob'.adaptor_sig.s_0_a = m.s_0_a
        /\ \A s \in {0, BumpScalar(m.s_0_a)} :
             (bob'.st = "Bob2") = Bob1_receive(bob, [m EXCEPT !.s_0_a = s]).ok

SharesAreNotChecked == [][Alice1ReceiveCopies /\ Bob1ReceiveCopies]_vars

\* Bob is Bob2 with an s_0_a, and Alice is Alice2 with an s_0_b, that were
\* altered on the wire.
AlteredSharesAccepted ==
    /\ alice.st = "Alice2"
    /\ bob.st = "Bob2"
    /\ \E m \in rcvd.M3 : m \notin net.M3 /\ alice.adaptor_sig.s_0_b = m.s_0_b
    /\ \E m \in rcvd.M2 : m \notin net.M2 /\ bob.adaptor_sig.s_0_a = m.s_0_a

\* C22: when determine_btc_to_swap has returned and the quote, the initial
\* balance and max_giveable were awaited and yielded Ok, it has returned
\* Ok of the smaller of max_giveable and the quote's max_quantity, the
\* initial balance being zero or not; and it returns Ok in no other case.
Succeeded(future) ==
    /\ \E i \in DOMAIN unit.polled : unit.polled[i] = future
    /\ unit.out[future].ok

ReturnsTheMinimum ==
    unit.fn = "determine_btc_to_swap" /\ unit.pc = "done" =>
      LET g == unit.out["max_giveable"].val
          q == unit.out["request_quote"].val.max_quantity
          all == Succeeded("request_quote") /\ Succeeded("initial_balance")
                   /\ Succeeded("max_giveable")
      IN  /\ all => /\ unit.result.ok
                    /\ unit.result.val \in {g, q}
                    /\ unit.result.val <= g
                    /\ unit.result.val <= q
          /\ unit.result.ok => all

\* It has returned the quote's max_quantity after a deposit, more being
\* giveable.
ReturnedMaxQuantity ==
    /\ unit.fn = "determine_btc_to_swap"
    /\ unit.pc = "done"
    /\ unit.out["initial_balance"] = Ok(0)
    /\ Succeeded("wait_for_deposit")
    /\ Succeeded("max_giveable")
    /\ unit.out["max_giveable"].val > unit.out["request_quote"].val.max_quantity
    /\ unit.result = Ok(unit.out["request_quote"].val.max_quantity)

\* C23: once the initial balance was awaited and was not zero,
\* get_new_address and wait_for_deposit are not polled, up to the return.
Polled(future) == \E i \in DOMAIN unit.polled : unit.polled[i] = future

NoDepositWithBalance ==
    /\ unit.fn = "determine_btc_to_swap"
    /\ Succeeded("initial_balance")
    /\ unit.out["initial_balance"].val # 0
    => ~Polled("get_new_address") /\ ~Polled("wait_for_deposit")

\* It has returned an amount with a balance at the start, given futures for
\* the address and the deposit that fail when polled.
ReturnedWithoutDeposit ==
    /\ unit.fn = "determine_btc_to_swap"
    /\ unit.pc = "done"
    /\ unit.result.ok
    /\ unit.out["initial_balance"].val # 0
    /\ ~unit.out["get_new_address"].ok
    /\ ~unit.out["wait_for_deposit"].ok

\* C29: the futures are polled in the order request_quote, initial_balance,
\* then get_new_address and wait_for_deposit if and only if the balance was
\* zero, then max_giveable, each once, up to the first that fails; a failed
\* quote is returned as the error "failed to request quote" with nothing
\* else polled; and max_giveable is polled last, after the deposit wait if
\* there was one.
IsPrefix(s, t) == Len(s) <= Len(t) /\ \A i \in 1..Len(s) : s[i] = t[i]

OrderWithDeposit == Futures

OrderWithoutDeposit == <<"request_quote", "initial_balance", "max_giveable">>

AwaitedInOrder ==
    unit.fn = "determine_btc_to_swap" =>
      /\ IsPrefix(unit.polled, OrderWithDeposit) \/ IsPrefix(unit.polled, OrderWithoutDeposit)
      /\ Polled("get_new_address") => unit.out["initial_balance"] = Ok(0)
      /\ Polled("max_giveable") /\ unit.out["initial_balance"] = Ok(0)
           => Succeeded("get_new_address") /\ Succeeded("wait_for_deposit")
      /\ Polled("max_giveable") => unit.pc = "done"
      /\ unit.pc = "done" /\ ~unit.out["request_quote"].ok
           => /\ unit.polled = <<"request_quote">>
              /\ unit.result = Err("failed to request quote")
      /\ unit.pc = "done" /\ unit.result.ok /\ unit.out["initial_balance"] = Ok(0)
           => unit.polled = OrderWithDeposit
      /\ unit.pc # "done" => unit.pc = Futures[Len(unit.polled) + 1]
                               \/ unit.pc = "max_giveable"

\* It has returned after waiting for a deposit.
ReturnedAfterDeposit ==
    /\ unit.fn = "determine_btc_to_swap"
    /\ unit.pc = "done"
    /\ unit.polled = Futures
    /\ unit.result.ok

\* C30: wait_for_transaction_finality returns nothing but Ok(()), and
\* returns it only in an iteration of its loop in which the transaction's
\* block height and then the tip's height were fetched and the tip's height
\* less the transaction's is bitcoin_finality_confirmations or more. In an
\* iteration where it is less, it awaits one tick of the interval whose
\* period is a quarter of bitcoin_avg_block_time (the first tick is due at
\* the call, each later one a period after the one before) and then
\* fetches the transaction's block height and the tip's height again.
FetchedInThisIteration ==
    /\ unit.tx_fetched = unit.iteration
    /\ unit.tip_fetched = unit.iteration

FinalityState ==
    InFinality =>
      /\ unit.result \in {Err("pending"), Ok("()")}
      /\ unit.result.ok <=> unit.pc = "done"
      /\ unit.pc = "done" =>
           /\ FetchedInThisIteration
           /\ unit.block_height - unit.tx_block_height >= unit.bitcoin_finality_confirmations
      /\ unit.pc = "tick" =>
           /\ FetchedInThisIteration
           /\ unit.block_height - unit.tx_block_height < unit.bitcoin_finality_confirmations
      /\ unit.pc = "confirmations" => FetchedInThisIteration
      /\ unit.ticks = unit.iteration - 1
      /\ unit.deadline = unit.ticks * (unit.bitcoin_avg_block_time \div 4)
      /\ unit.ticks >= 1 => unit.now >= (unit.ticks - 1) * (unit.bitcoin_avg_block_time \div 4)

FinalitySteps ==
    InFinality /\ unit'.pc # unit.pc =>
      /\ unit.pc = "transaction_block_height" /\ unit'.pc # "panicked" =>
           /\ unit'.pc = "get_block_height"
           /\ unit.tx_status = Ok(unit'.tx_block_height)
           /\ unit'.ticks = unit.ticks
      /\ unit.pc = "get_block_height" =>
           /\ unit'.pc = "confirmations"
           /\ unit'.block_height = unit.tip
           /\ unit'.tx_block_height = unit.tx_block_height
           /\ unit'.ticks = unit.ticks
      /\ unit.pc = "confirmations" =>
           /\ unit'.pc \in {"done", "tick"}
           /\ unit'.block_height = unit.block_height
           /\ unit'.tx_block_height = unit.tx_block_height
           /\ unit'.ticks = unit.ticks
      /\ unit.pc = "tick" =>
           /\ unit'.pc = "transaction_block_height"
           /\ unit'.ticks = unit.ticks + 1
           /\ unit'.iteration = unit.iteration + 1
      /\ unit.pc \notin {"done", "panicked"}

FinalityWhenConfirmed == []FinalityState /\ [][FinalitySteps]_vars

\* It has returned Ok(()) in its third iteration, after two ticks.
FinalAfterTwoTicks ==
    /\ InFinality
    /\ unit.pc = "done"
    /\ unit.result = Ok("()")
    /\ unit.ticks = 2
    /\ unit.block_height - unit.tx_block_height >= unit.bitcoin_finality_confirmations

\* C31: transaction_block_height returns nothing but a height the status
\* endpoint has just reported; a failed request or a status without a
\* block height is followed by a sleep of one second and another request,
\* however many there have been; an answer that is not JSON ends the call
\* without another request; and if from some time on the endpoint reports
\* the transaction mined, the call ends.
TxHeightState ==
    InTxHeight =>
      /\ unit.result.ok <=> unit.pc = "done"
      /\ unit.result.ok \/ unit.result = Err("pending")
      /\ unit.pc = "done" => unit.last.kind = "Ok" /\ unit.result = Ok(unit.last.val)
      /\ unit.pc = "backoff" =>
           /\ unit.last.kind = "Transient"
           /\ unit.last.err \in {"Io", "NotYetMined"}
           /\ unit.delay = 1
      /\ unit.pc = "panicked" => unit.last.err = "JsonDeserialisation"

TxHeightSteps ==
    InTxHeight /\ unit'.pc # unit.pc =>
      /\ unit.pc = "request" /\ unit.server = "up" /\ unit.tx_status.ok =>
           unit'.pc = "done" /\ unit'.result = unit.tx_status
      /\ unit.pc = "request" /\ (unit.server = "down"
                                   \/ (unit.server = "up" /\ ~unit.tx_status.ok)) =>
           unit'.pc = "backoff"
      /\ unit.pc = "request" /\ unit.server = "garbled" =>
           unit'.pc = "panicked" /\ unit'.retries = unit.retries
      /\ unit.pc = "backoff" => unit'.pc = "request"
      /\ unit.pc \notin {"done", "panicked"}

ReportedMined == InTxHeight /\ unit.server = "up" /\ unit.tx_status.ok

TxHeightEnded == InTxHeight /\ unit.pc \in {"done", "panicked"}

ReturnsWhatIsReported ==
    /\ []TxHeightState
    /\ [][TxHeightSteps]_vars
    /\ (<>[]ReportedMined => <>TxHeightEnded)

\* It has returned a height after as many retries as the model counts, the
\* last of them after a failed request.
ReturnedAfterRetries ==
    /\ InTxHeight
    /\ unit.pc = "done"
    /\ unit.retries = MaxRetries
    /\ unit.result = unit.tx_status

\* C32: send_raw_transaction has returned Ok exactly when the request was
\* answered with an HTTP status from 200 to 299 and a body that decodes to
\* a response whose status is OK; an answer with another HTTP status, a
\* body that does not decode, and a status of Failed each make it return
\* an error, and it returns Ok with no status of Failed.
Decodable ==
    /\ unit.body.json
    /\ unit.body.complete
    /\ unit.body.status \in {"OK", "Failed"}

OkOnlyWhenAccepted ==
    InSendRaw /\ unit.pc = "done" =>
      /\ unit.result.ok <=> /\ unit.sent
                            /\ unit.code >= 200 /\ unit.code <= 299
                            /\ Decodable
                            /\ unit.body.status # "Failed"
      /\ unit.result.ok => unit.result = Ok("()")
      /\ unit.sent /\ (unit.code < 200 \/ unit.code > 299) =>
           unit.result = Err("Request failed with status code")
      /\ unit.sent /\ unit.code >= 200 /\ unit.code <= 299 /\ ~Decodable =>
           unit.result = Err("decode")
      /\ unit.sent /\ unit.code >= 200 /\ unit.code <= 299 /\ Decodable
           /\ unit.body.status = "Failed" =>
           unit.result = Err("Response status failed")

\* It has returned an error on a response of HTTP status 200 that decoded,
\* with status Failed.
FailedStatusReturned ==
    /\ InSendRaw
    /\ unit.pc = "done"
    /\ unit.code = 200
    /\ unit.response.status = "Status::Failed"
    /\ ~unit.result.ok

\* C33: with BuyXmr or Resume and a receive address that is not on
\* stagenet, main never returns Ok and makes none of the calls
\* init_bitcoin_wallet, init_monero_wallet, EventLoop::new,
\* determine_btc_to_swap, Builder::build, bob::run; once the calls before
\* the match have succeeded it returns the error about the address's
\* network, and before that it ends with the error of the call that failed
\* (the seed's failure is a panic).
Made(step) == \E i \in DOMAIN unit.made : unit.made[i] = step

AfterTheCheck ==
    {"init_bitcoin_wallet", "init_monero_wallet", "EventLoop::new",
     "determine_btc_to_swap", "Builder::build", "bob::run"}

BeforeTheMatch ==
    {"set_global_default", "read_config", "Database::open",
     "Seed::from_file_or_generate", "WalletRpc::new", "WalletRpc::run"}

WrongNetworkFailsFirst ==
    /\ InMain
    /\ unit.cmd \in {"BuyXmr", "Resume"}
    /\ unit.network # "Stagenet"
    => /\ \A step \in AfterTheCheck : ~Made(step) /\ unit.pc # step
       /\ ~unit.result.ok
       /\ unit.pc # "return"
       /\ unit.pc = "done" =>
            IF unit.fails \in BeforeTheMatch /\ Made(unit.fails)
              THEN unit.result = Err(unit.fails)
              ELSE /\ unit.result = Err("monero address is on another network")
                   /\ Made("WalletRpc::run")
       /\ unit.pc = "panicked" => unit.fails = "Seed::from_file_or_generate"

\* Resume has returned the error about the network of a mainnet address,
\* where the Bitcoin wallet's initialisation would have failed.
WrongNetworkReturned ==
    /\ InMain
    /\ unit.cmd = "Resume"
    /\ unit.network = "Mainnet"
    /\ unit.fails = "init_bitcoin_wallet"
    /\ unit.pc = "done"
    /\ unit.result = Err("monero address is on another network")

====
